---------------------------- MODULE Spec2Model ----------------------------
(***************************************************************************)
(* A state-machine model of hack/heap/hh_shared.c: the shared-memory       *)
(* dependency table (bindings filter + adjacency store) and the value      *)
(* store (hash table + bump-allocated heap), as used concurrently by the   *)
(* processes attached to the shared region.                                *)
(*                                                                         *)
(* Every shared-memory access of the C code (a load, a store, a CAS, a     *)
(* fetch-and-add) is one step of the process that performs it; the local   *)
(* computation between two accesses belongs to the step of the access      *)
(* that precedes it.                                                       *)
(***************************************************************************)
EXTENDS Integers, Sequences, FiniteSets, TLC

(***************************************************************************)
(* Bounds of the model.                                                    *)
(***************************************************************************)
\* config_dep_table_pow: the dependency table has 2^pow slots.
dep_table_pow == 2
\* Edges u -> v are drawn from u \in 0..MaxKey, v \in 0..MaxVal.
MaxKey == 1
MaxVal == 2

(***************************************************************************)
(* The processes.  Process 1 is the master (the one that ran               *)
(* hh_shared_init); `attached` is the set of processes that share the      *)
(* region in this run.                                                     *)
(***************************************************************************)
Procs == {1, 2}
Keys == 0 .. MaxKey
\* The keys hh_get_dep is asked for: those of the edges and one that has none.
ProbeKeys == 0 .. MaxKey + 1
Vals == 0 .. MaxVal

(***************************************************************************)
(* 64-bit words as 8 bytes, least significant first (w[1] is bits 7..0).   *)
(***************************************************************************)
Bytes == 0 .. 255

\* The word of a number 0 <= n < 2^31.
WordOfUint31(n) ==
  << n % 256, (n \div 256) % 256, (n \div 65536) % 256, (n \div 16777216) % 256,
     0, 0, 0, 0 >>

\* ((uint64_t)key << 31) | val, for key, val < 2^31.
BindingWord(key, val) ==
  LET lo == WordOfUint31(val)
      hi == WordOfUint31(key \div 2)
  IN  << lo[1], lo[2], lo[3], lo[4] + 128 * (key % 2), hi[1], hi[2], hi[3], hi[4] >>

\* Column k (1..8) of the schoolbook product of two words.
MulColumn(a, b, k) ==
  LET RECURSIVE Sum(_)
      Sum(i) == IF i = 0 THEN 0 ELSE a[i] * b[k + 1 - i] + Sum(i - 1)
  IN  Sum(k)

\* a * b modulo 2^64.
RECURSIVE MulCarry(_, _, _)
MulCarry(a, b, k) ==
  IF k = 0 THEN 0 ELSE (MulColumn(a, b, k) + MulCarry(a, b, k - 1)) \div 256

Mul64(a, b) ==
  [k \in 1 .. 8 |-> (MulColumn(a, b, k) + MulCarry(a, b, k - 1)) % 256]

bswap64(w) == [k \in 1 .. 8 |-> w[9 - k]]

\* 0x9e3779b97f4a7c15
golden_ratio == << 21, 124, 74, 127, 185, 121, 55, 158 >>

hash_uint64(n) == bswap64(Mul64(n, golden_ratio))

\* w & (size - 1) for a table size that is a power of two up to 256: the mask
\* keeps bits of the low byte only.
MaskSlot(w, size) == w[1] % size

RECURSIVE Pow2(_)
Pow2(n) == IF n = 0 THEN 1 ELSE 2 * Pow2(n - 1)

dep_size == Pow2(dep_table_pow)
DepSlots == 0 .. dep_size - 1


(***************************************************************************)
(* Dependency table: types and encodings.                                  *)
(***************************************************************************)
TAG_VAL == 0
TAG_KEY == 1
TAG_NEXT == 1

\* A deptbl_entry_t: two tagged_uint_t fields sharing one 64-bit word.
Entry(knum, ktag, nnum, ntag) ==
  [key |-> [num |-> knum, tag |-> ktag], next |-> [num |-> nnum, tag |-> ntag]]

\* s.raw == 0
EmptyEntry == Entry(0, 0, 0, 0)

\* ~0 truncated to the 31-bit num field.
PlaceholderNum == 2147483647

\* A list node that starts with a next field of zeroes.
ListNodeZeroNext(val) == Entry(val, TAG_VAL, 0, TAG_VAL)

\* { { val, TAG_VAL }, { ~0, TAG_NEXT } }
ListNode(val) == Entry(val, TAG_VAL, PlaceholderNum, TAG_NEXT)

\* { { key, TAG_KEY }, { val, TAG_VAL } }
FirstHead(key, val) == Entry(key, TAG_KEY, val, TAG_VAL)

\* { { key, TAG_KEY }, { list_slot, TAG_NEXT } }
LinkedHead(key, list_slot) == Entry(key, TAG_KEY, list_slot, TAG_NEXT)

\* slotval.s.key.num == key && slotval.s.key.tag == TAG_KEY
IsHeadOf(slotval, key) == slotval.key.num = key /\ slotval.key.tag = TAG_KEY

\* A word of deptbl_bindings, ((uint64_t)key << 31) | val, kept as its two
\* 31-bit halves; the word is 0 exactly when both halves are 0.
Binding(key, val) == << key, val >>
ZeroWord == << 0, 0 >>

\* A filter that reports no binding as present.
binding_absent(slot_val, value) == FALSE

\* if (slot_val == value) return 0;
binding_exists(slot_val, value) == slot_val = value

\* Starting slots of the three probe sequences.
binding_slot ==
  [u \in Keys |-> [v \in Vals |->
     MaskSlot(hash_uint64(BindingWord(u, v)), dep_size)]]
key_slot == [u \in ProbeKeys |-> MaskSlot(hash_uint64(WordOfUint31(u)), dep_size)]

\* A probe that stays on its slot.
same_slot(slot) == slot

\* slot = (slot + 1) & (dep_size - 1);
next_slot(slot) == (slot + 1) % dep_size

VARIABLES
  attached,         \* the processes sharing the region
  deptbl,           \* the adjacency store
  deptbl_bindings,  \* the bindings filter
  dcounter,         \* *dcounter
  dpc,              \* per process: where it is in hh_add_dep / hh_get_dep
  dloc,             \* per process: the locals of that call
  order,            \* history: per key, the values in head-CAS order
  added,            \* history: the edges whose hh_add_dep has returned, kept
                    \* in the runs with a single attached process
  hashtbl,          \* the value store's slots: [hash, addr]
  hcounter,         \* *hcounter
  heap,             \* the heap below *heap: per cache line, the entry whose
                    \* chunk starts there
  heap_top,         \* *heap
  hpc,              \* per process: where it is in hh_add / hh_mem / hh_get
  hloc,             \* per process: the locals of that call
  cpc,              \* the codec round trip: its position,
  cval,             \*   the value given to hh_store_ocaml,
  centry,           \*   the heap entry it built,
  cout,             \*   and what hh_deserialize made of it
  allow_dependency_table_reads,  \* *allow_dependency_table_reads
  allow_removes,    \* *allow_removes
  wasted_heap_size, \* *wasted_heap_size
  mres,             \* history: the last call of hh_collect, hh_remove or
                    \* hh_move, the store as it was before and the outcome
  sc,               \* hh_should_collect on a heap of any size: the sizes
                    \* and the answer
  workers_should_exit,  \* *workers_should_exit
  worker_can_exit,  \* per process: worker_can_exit
  global_storage,   \* the global storage: word 0 (the length) and the bytes
  gpc,              \* per process: where it is in a call on the flags or
                    \* the global storage
  gloc,             \* per process: the locals of that call
  stored_blob,      \* history: the blob whose hh_shared_store has returned,
                    \* until the next hh_shared_clear or hh_shared_store
  counter,          \* *counter
  counter_mapped,   \* per process: counter != NULL
  early_counter,    \* per process: early_counter
  kpc,              \* per process: where it is in hh_counter_next
  issued,           \* history: the values hh_counter_next has fetched
  returned,         \* history: the values hh_counter_next has returned
  hd                \* a header on its way through the encoding of
                    \* hh_store_ocaml and the Entry_ macros, or the word
                    \* hh_collect leaves in the place of a header

depvars == << deptbl, deptbl_bindings, dcounter, dpc, dloc, order, added >>
storevars == << hashtbl, hcounter, heap, heap_top, hpc, hloc >>
codecvars == << cpc, cval, centry, cout >>
othervars == << allow_dependency_table_reads, allow_removes, wasted_heap_size, mres, sc >>
ctlvars == << workers_should_exit, worker_can_exit, global_storage, gpc, gloc, stored_blob,
              counter, counter_mapped, early_counter, kpc, issued, returned, hd >>
vars == << attached, depvars, storevars, codecvars, othervars, ctlvars >>

DIdle ==
  [op |-> "none", key |-> 0, val |-> 0, slot |-> 0, slot_val |-> ZeroWord,
   slotval |-> EmptyEntry, list_slot |-> 0, result |-> << >>, snap |-> << >>,
   res |-> "none"]

InitDep ==
  /\ attached \in {{1}, Procs}
  /\ deptbl = [s \in DepSlots |-> EmptyEntry]
  /\ deptbl_bindings = [s \in DepSlots |-> ZeroWord]
  /\ dcounter = 0
  /\ dpc = [p \in Procs |-> "idle"]
  /\ dloc = [p \in Procs |-> DIdle]
  /\ order = [u \in Keys |-> << >>]
  /\ added = {}

DGoto(p, label, locals) ==
  /\ dpc' = [dpc EXCEPT ![p] = label]
  /\ dloc' = [dloc EXCEPT ![p] = locals]

\* The locals of a call that is over: what it was, and what it gave.
DResult(l, res) ==
  [DIdle EXCEPT !.op = l.op, !.key = l.key, !.val = l.val, !.result = l.result,
                !.snap = l.snap, !.res = res]

DReturn(p, res) == DGoto(p, "ret", DResult(dloc[p], res))

(***************************************************************************)
(* Cancellation.  A process is in one call at a time.                      *)
(***************************************************************************)
\* The process is in no call on the dependency table or the value store.
NoCall(p) == dpc[p] = "idle" /\ hpc[p] = "idle" /\ gpc[p] = "idle"

check_should_exit_always(p) == workers_should_exit

\* check_should_exit: if (worker_can_exit && *workers_should_exit) raise
check_should_exit(p) == worker_can_exit[p] /\ workers_should_exit

(***************************************************************************)
(* Heap entries: the header word and the payload encoding.                 *)
(***************************************************************************)
KIND_STRING == 1
KIND_SERIALIZED == 0

CACHE_LINE_SIZE == 64
\* sizeof(heap_entry_t): the header word.
HeaderBytes == 8

ALIGNED(x) == ((x + CACHE_LINE_SIZE - 1) \div CACHE_LINE_SIZE) * CACHE_LINE_SIZE

\* A header with the kind in bit 33, on top of the size.
MakeHeaderKindHigh(size, kind, uncompressed_size) ==
  << (uncompressed_size % 128) * 2 + 1,
     (uncompressed_size \div 128) % 256,
     (uncompressed_size \div 32768) % 256,
     (uncompressed_size \div 8388608) % 256,
     ((size % 128) * 2 + 2 * kind) % 256,
     (size \div 128) % 256,
     (size \div 32768) % 256,
     (size \div 8388608) % 256 >>

\* size << 33 | (uint64_t)kind << 32 | uncompressed_size << 1 | 1, for sizes
\* below 2^31 (hh_store_ocaml asserts it).
MakeHeader(size, kind, uncompressed_size) ==
  << (uncompressed_size % 128) * 2 + 1,
     (uncompressed_size \div 128) % 256,
     (uncompressed_size \div 32768) % 256,
     (uncompressed_size \div 8388608) % 256,
     (size % 128) * 2 + kind,
     (size \div 128) % 256,
     (size \div 32768) % 256,
     (size \div 8388608) % 256 >>

\* (x) >> 33
Entry_size(x) == (x[5] \div 2) + 128 * x[6] + 32768 * x[7] + 8388608 * x[8]
\* ((x) >> 32) & 1
Entry_kind(x) == x[5] % 2
\* ((x) >> 1) & 0x7FFFFFFF
Entry_uncompressed_size(x) ==
  (x[1] \div 2) + 128 * x[2] + 32768 * x[3] + 8388608 * x[4]
Heap_entry_total_size(header) == HeaderBytes + Entry_size(header)

(***************************************************************************)
(* The LZ4 block format, as far as hh_store_ocaml and hh_deserialize use   *)
(* the library: a sequence is a token (literal length, match length - 4),  *)
(* the literals, a 2-byte offset and the match; the last sequence has      *)
(* literals only.                                                          *)
(***************************************************************************)
\* LZ4_COMPRESSBOUND: 0 above LZ4_MAX_INPUT_SIZE (0x7E000000).
LZ4_compressBound(isize) ==
  IF isize > 2113929216 THEN 0 ELSE isize + isize \div 255 + 16

RECURSIVE LZ4_length_bytes(_)
LZ4_length_bytes(n) == IF n >= 255 THEN << 255 >> \o LZ4_length_bytes(n - 255) ELSE << n >>

Min(a, b) == IF a < b THEN a ELSE b

\* The sequence that ends a block: a token with no match and the literals.
LZ4_last_literals(lits) ==
  LET n == Len(lits)
  IN  << 16 * Min(n, 15) >> \o (IF n >= 15 THEN LZ4_length_bytes(n - 15) ELSE << >>) \o lits

\* The encoder finds one kind of match: the block starts with a run of one byte
\* that reaches to the last five bytes.  It codes the run as one literal and a
\* match at offset 1, as the format allows from 13 input bytes on.
LZ4_encode(src) ==
  LET n == Len(src)
      run == n >= 13 /\ \A i \in 1 .. n - 5 : src[i] = src[1]
      ml == n - 6
  IN  IF run
        THEN << 16 + Min(ml - 4, 15), src[1], 1, 0 >>
             \o (IF ml - 4 >= 15 THEN LZ4_length_bytes(ml - 4 - 15) ELSE << >>)
             \o LZ4_last_literals(SubSeq(src, n - 4, n))
        ELSE LZ4_last_literals(src)

\* LZ4_compress_default(src, dst, srcSize, dstCapacity): the block, or nothing
\* (the function returns 0) when it does not fit.
LZ4_compress_default(src, dstCapacity) ==
  LET out == LZ4_encode(src)
  IN  IF Len(out) > dstCapacity THEN << >> ELSE out

\* Reads a length that continues in the bytes from i on: << length, next i >>,
\* or << -1, i >> when the block ends inside it.
RECURSIVE LZ4_read_length(_, _, _)
LZ4_read_length(src, i, acc) ==
  IF i > Len(src) THEN << -1, i >>
  ELSE IF src[i] = 255 THEN LZ4_read_length(src, i + 1, acc + 255)
  ELSE << acc + src[i], i + 1 >>

\* Appends `n` bytes that start `offset` bytes back in `out`, copied one at a
\* time: a match that overlaps what it writes repeats the last `offset` bytes.
LZ4_copy_match(out, offset, n) ==
  out \o [i \in 1 .. n |-> out[Len(out) - offset + 1 + ((i - 1) % offset)]]

\* LZ4_decompress_safe(src, dst, compressedSize, dstCapacity): the bytes
\* decoded, or << -1 >> (a negative result) for a malformed block or one
\* that decodes to more than dstCapacity bytes.
RECURSIVE LZ4_decode(_, _, _, _)
LZ4_decode(src, i, out, cap) ==
  IF i > Len(src) THEN << -1 >>
  ELSE
    LET token == src[i]
        ll == IF token \div 16 = 15
                THEN LZ4_read_length(src, i + 1, 15)
                ELSE << token \div 16, i + 1 >>
        lit_end == ll[2] + ll[1] - 1
    IN  IF ll[1] < 0 \/ lit_end > Len(src) \/ Len(out) + ll[1] > cap
          THEN << -1 >>
        ELSE
          LET out1 == out \o SubSeq(src, ll[2], lit_end)
              j == lit_end + 1
          IN  IF j > Len(src) THEN out1
              ELSE IF j + 1 > Len(src) THEN << -1 >>
              ELSE
                LET offset == src[j] + 256 * src[j + 1]
                    ml == IF token % 16 = 15
                            THEN LZ4_read_length(src, j + 2, 15)
                            ELSE << token % 16, j + 2 >>
                IN  IF ml[1] < 0 \/ offset = 0 \/ offset > Len(out1)
                       \/ Len(out1) + ml[1] + 4 > cap
                      THEN << -1 >>
                      ELSE LZ4_decode(src, ml[2],
                                      LZ4_copy_match(out1, offset, ml[1] + 4), cap)

LZ4_decompress_safe(src, dstCapacity) == LZ4_decode(src, 1, << >>, dstCapacity)

(***************************************************************************)
(* hh_store_ocaml and hh_deserialize.  A value given to the store is       *)
(* [kind, bytes]: an OCaml string and its bytes, or another value and the  *)
(* bytes caml_output_value_to_malloc gives for it.                         *)
(***************************************************************************)
\* A store that keeps every block LZ4 returns, shorter than the value or not.
compression_always(compressed_size, size) == compressed_size # 0

\* if (compressed_size != 0 && compressed_size < size)
compression_selected(compressed_size, size) ==
  compressed_size # 0 /\ compressed_size < size

\* What hh_store_ocaml computes before it allocates: the header, the payload
\* bytes it will copy, and the two sizes it reports.
store_ocaml(data) ==
  LET size == Len(data.bytes)
      compressed_data == LZ4_compress_default(data.bytes, LZ4_compressBound(size))
      compressed_size == Len(compressed_data)
      selected == compression_selected(compressed_size, size)
      stored == IF selected THEN compressed_size ELSE size
      uncompressed_size == IF selected THEN size ELSE 0
  IN  [header |-> MakeHeader(stored, data.kind, uncompressed_size),
       payload |-> IF uncompressed_size # 0 THEN compressed_data ELSE data.bytes,
       alloc_size |-> stored,
       orig_size |-> size]

\* What stands for no value, and for a failed assertion of hh_deserialize.
NoValue == [kind |-> -1, bytes |-> << >>]
DeserializeAssert == [kind |-> -2, bytes |-> << >>]

\* hh_deserialize(elt): the value of a heap entry [header, data], or
\* DeserializeAssert when assert(uncompressed_size == uncompressed_size_exp)
\* fails.
hh_deserialize(elt) ==
  LET size == Entry_size(elt.header)
      uncompressed_size_exp == Entry_uncompressed_size(elt.header)
      src == SubSeq(elt.data, 1, size)
      data == IF uncompressed_size_exp # 0
                THEN LZ4_decompress_safe(src, uncompressed_size_exp)
                ELSE src
  IN  IF uncompressed_size_exp # 0 /\ (data = << -1 >> \/ Len(data) # uncompressed_size_exp)
        THEN DeserializeAssert
        ELSE [kind |-> Entry_kind(elt.header), bytes |-> data]

(***************************************************************************)
(* hh_add_dep -> add_dep -> add_binding                                    *)
(***************************************************************************)
\* check_should_exit(); add_dep(dep >> 31, dep & 0x7FFFFFFF);
hh_add_dep(p, key, val) ==
  /\ p \in attached /\ NoCall(p)
  /\ IF check_should_exit(p)
       THEN DGoto(p, "ret", [DIdle EXCEPT !.op = "add", !.key = key, !.val = val,
                                          !.res = "WorkerShouldExit"])
       ELSE DGoto(p, "ab_load",
              [DIdle EXCEPT !.op = "add", !.key = key, !.val = val,
                            !.slot = binding_slot[key][val]])
  /\ UNCHANGED << storevars, codecvars, othervars, ctlvars, attached, deptbl, deptbl_bindings, dcounter, order, added >>

\* uint64_t slot_val = table[slot]; if (slot_val == value) return 0;
add_binding_load(p) ==
  /\ dpc[p] = "ab_load"
  /\ LET l == dloc[p]
         slot_val == deptbl_bindings[l.slot]
     IN  IF binding_exists(slot_val, Binding(l.key, l.val))
           THEN DReturn(p, "dup")
           ELSE DGoto(p, "ab_count", [l EXCEPT !.slot_val = slot_val])
  /\ UNCHANGED << storevars, codecvars, othervars, ctlvars, attached, deptbl, deptbl_bindings, dcounter, order, added >>

\* if (*dcounter >= dep_size) raise_dep_table_full(); if (slot_val == 0) ...
add_binding_count(p) ==
  /\ dpc[p] = "ab_count"
  /\ LET l == dloc[p]
     IN  IF dcounter >= dep_size
           THEN DReturn(p, "DepTableFull")
           ELSE IF l.slot_val = ZeroWord
             THEN DGoto(p, "ab_cas", l)
             ELSE DGoto(p, "ab_load", [l EXCEPT !.slot = next_slot(l.slot),
                                                !.slot_val = ZeroWord])
  /\ UNCHANGED << storevars, codecvars, othervars, ctlvars, attached, deptbl, deptbl_bindings, dcounter, order, added >>

\* __sync_bool_compare_and_swap(&table[slot], 0, value)
add_binding_cas(p) ==
  /\ dpc[p] = "ab_cas"
  /\ LET l == dloc[p]
     IN  IF deptbl_bindings[l.slot] = ZeroWord
           THEN /\ deptbl_bindings' =
                     [deptbl_bindings EXCEPT ![l.slot] = Binding(l.key, l.val)]
                /\ DGoto(p, "ab_inc", l)
           ELSE /\ UNCHANGED deptbl_bindings
                /\ DGoto(p, "ab_reload", l)
  /\ UNCHANGED << storevars, codecvars, othervars, ctlvars, attached, deptbl, dcounter, order, added >>

\* uint64_t size = __sync_fetch_and_add(dcounter, 1); assert(size <= dep_size);
\* return 1;  and add_dep goes on to prepend_to_deptbl_list.
add_binding_inc(p) ==
  /\ dpc[p] = "ab_inc"
  /\ dcounter' = dcounter + 1
  /\ IF dcounter <= dep_size
       THEN DGoto(p, "pp_load", [dloc[p] EXCEPT !.slot = key_slot[dloc[p].key]])
       ELSE DReturn(p, "assert")
  /\ UNCHANGED << storevars, codecvars, othervars, ctlvars, attached, deptbl, deptbl_bindings, order, added >>

\* if (table[slot] == value) return 0;  slot = (slot + 1) & (dep_size - 1);
add_binding_reload(p) ==
  /\ dpc[p] = "ab_reload"
  /\ LET l == dloc[p]
     IN  IF deptbl_bindings[l.slot] = Binding(l.key, l.val)
           THEN DReturn(p, "dup")
           ELSE DGoto(p, "ab_load", [l EXCEPT !.slot = next_slot(l.slot)])
  /\ UNCHANGED << storevars, codecvars, othervars, ctlvars, attached, deptbl, deptbl_bindings, dcounter, order, added >>

(***************************************************************************)
(* prepend_to_deptbl_list and alloc_deptbl_node                            *)
(***************************************************************************)
\* After a load or a failed CAS left `slotval` (not raw 0) in the locals:
\* prepend to the list of `key` when the slot is its head, else probe on.
prepend_dispatch(p, l) ==
  IF IsHeadOf(l.slotval, l.key)
    THEN DGoto(p, "pp_alloc", [l EXCEPT !.list_slot = binding_slot[l.key][l.val]])
    ELSE DGoto(p, "pp_load", [l EXCEPT !.slot = next_slot(l.slot),
                                       !.slotval = EmptyEntry])

\* deptbl_entry_t slotval = table[slot];
prepend_load(p) ==
  /\ dpc[p] = "pp_load"
  /\ LET l == [dloc[p] EXCEPT !.slotval = deptbl[dloc[p].slot]]
     IN  IF l.slotval = EmptyEntry
           THEN DGoto(p, "pp_cas_head", l)
           ELSE prepend_dispatch(p, l)
  /\ UNCHANGED << storevars, codecvars, othervars, ctlvars, attached, deptbl, deptbl_bindings, dcounter, order, added >>

\* slotval.raw = __sync_val_compare_and_swap(&table[slot].raw, 0, head.raw);
prepend_cas_head(p) ==
  /\ dpc[p] = "pp_cas_head"
  /\ LET l == dloc[p]
     IN  IF deptbl[l.slot] = EmptyEntry
           THEN /\ deptbl' = [deptbl EXCEPT ![l.slot] = FirstHead(l.key, l.val)]
                /\ order' = [order EXCEPT ![l.key] = Append(@, l.val)]
                /\ DReturn(p, "new")
           ELSE /\ UNCHANGED << deptbl, order >>
                /\ prepend_dispatch(p, [l EXCEPT !.slotval = deptbl[l.slot]])
  /\ UNCHANGED << storevars, codecvars, othervars, ctlvars, attached, deptbl_bindings, dcounter, added >>

\* An allocation that takes the slot of its hint, free or not.
alloc_deptbl_node_at_hint(p) ==
  /\ dpc[p] = "pp_alloc"
  /\ deptbl' = [deptbl EXCEPT ![dloc[p].list_slot] = ListNode(dloc[p].val)]
  /\ DGoto(p, "pp_set_next", dloc[p])
  /\ UNCHANGED << storevars, codecvars, othervars, ctlvars, attached, deptbl_bindings, dcounter, order, added >>

\* One turn of the scan: table[slot].raw == 0 &&
\* __sync_bool_compare_and_swap(&table[slot].raw, 0, list_node.raw)
alloc_deptbl_node(p) ==
  /\ dpc[p] = "pp_alloc"
  /\ LET l == dloc[p]
     IN  IF deptbl[l.list_slot] = EmptyEntry
           THEN /\ deptbl' = [deptbl EXCEPT ![l.list_slot] = ListNode(l.val)]
                /\ DGoto(p, "pp_set_next", l)
           ELSE /\ UNCHANGED deptbl
                /\ DGoto(p, "pp_alloc", [l EXCEPT !.list_slot = next_slot(l.list_slot)])
  /\ UNCHANGED << storevars, codecvars, othervars, ctlvars, attached, deptbl_bindings, dcounter, order, added >>

\* A prepend that publishes the node with the next field alloc_deptbl_node
\* gave it.
prepend_keep_placeholder(p) ==
  /\ dpc[p] = "pp_set_next"
  /\ DGoto(p, "pp_cas", dloc[p])
  /\ UNCHANGED << storevars, codecvars, othervars, ctlvars, attached, deptbl, deptbl_bindings, dcounter, order, added >>

\* table[list_slot].s.next = slotval.s.next;
prepend_set_next(p) ==
  /\ dpc[p] = "pp_set_next"
  /\ deptbl' = [deptbl EXCEPT ![dloc[p].list_slot].next = dloc[p].slotval.next]
  /\ DGoto(p, "pp_cas", dloc[p])
  /\ UNCHANGED << storevars, codecvars, othervars, ctlvars, attached, deptbl_bindings, dcounter, order, added >>

\* slotval.raw = __sync_val_compare_and_swap(&table[slot].raw, old, head.raw);
prepend_cas(p) ==
  /\ dpc[p] = "pp_cas"
  /\ LET l == dloc[p]
     IN  IF deptbl[l.slot] = l.slotval
           THEN /\ deptbl' = [deptbl EXCEPT ![l.slot] = LinkedHead(l.key, l.list_slot)]
                /\ order' = [order EXCEPT ![l.key] = Append(@, l.val)]
                /\ DReturn(p, "new")
           ELSE /\ UNCHANGED << deptbl, order >>
                /\ DGoto(p, "pp_set_next", [l EXCEPT !.slotval = deptbl[l.slot]])
  /\ UNCHANGED << storevars, codecvars, othervars, ctlvars, attached, deptbl_bindings, dcounter, added >>

(***************************************************************************)
(* hh_get_dep                                                              *)
(***************************************************************************)
\* History: the values added under `key`, in the order of their linking.
edges_added(key) == IF key \in Keys THEN order[key] ELSE << >>

hh_get_dep(p, key) ==
  /\ p \in attached /\ NoCall(p)
  /\ IF check_should_exit(p)
       THEN DGoto(p, "ret", [DIdle EXCEPT !.op = "get", !.key = key,
                                          !.res = "WorkerShouldExit"])
       ELSE DGoto(p, "gd_load", [DIdle EXCEPT !.op = "get", !.key = key,
                                              !.slot = key_slot[key]])
  /\ UNCHANGED << storevars, codecvars, othervars, ctlvars, attached, deptbl, deptbl_bindings, dcounter, order, added >>

\* The tail of the walk: while (slotval.s.next.tag == TAG_NEXT) { assert(...);
\* <load> } and, once the tag is TAG_VAL, the special last value.
get_dep_continue(p, l) ==
  IF l.slotval.next.tag = TAG_NEXT
    THEN IF l.slotval.next.num < dep_size
           THEN DGoto(p, "gd_walk", l)
           ELSE DGoto(p, "ret", DResult(l, "assert"))
    ELSE DGoto(p, "ret", DResult([l EXCEPT !.result = << l.slotval.next.num >> \o @],
                                 "list"))

\* deptbl_entry_t slotval = table[slot];  in the probe loop
get_dep_load(p) ==
  /\ dpc[p] = "gd_load"
  /\ LET l == [dloc[p] EXCEPT !.slotval = deptbl[dloc[p].slot]]
     IN  IF l.slotval = EmptyEntry
           THEN DGoto(p, "ret", DResult([l EXCEPT !.snap = edges_added(l.key)], "list"))
           ELSE IF IsHeadOf(l.slotval, l.key)
             THEN get_dep_continue(p, [l EXCEPT !.snap = edges_added(l.key)])
             ELSE DGoto(p, "gd_load", [l EXCEPT !.slot = next_slot(l.slot),
                                                !.slotval = EmptyEntry])
  /\ UNCHANGED << storevars, codecvars, othervars, ctlvars, attached, deptbl, deptbl_bindings, dcounter, order, added >>

\* slotval = table[slotval.s.next.num];  and the cons of slotval.s.key.num
get_dep_walk(p) ==
  /\ dpc[p] = "gd_walk"
  /\ LET cell == deptbl[dloc[p].slotval.next.num]
         l == [dloc[p] EXCEPT !.slotval = cell, !.result = << cell.key.num >> \o @]
     IN  get_dep_continue(p, l)
  /\ UNCHANGED << storevars, codecvars, othervars, ctlvars, attached, deptbl, deptbl_bindings, dcounter, order, added >>

\* The call is over: CAMLreturn, or the exception leaves the stub.
dep_return(p) ==
  /\ dpc[p] = "ret"
  /\ added' = IF attached = {1} /\ dloc[p].op = "add" /\ dloc[p].res \in {"dup", "new"}
                THEN added \cup {<< dloc[p].key, dloc[p].val >>}
                ELSE added
  /\ DGoto(p, "idle", DIdle)
  /\ UNCHANGED << storevars, codecvars, othervars, ctlvars, attached, deptbl, deptbl_bindings, dcounter, order >>

DepStep(p) ==
  \/ \E key \in Keys, val \in Vals : hh_add_dep(p, key, val)
  \/ add_binding_load(p)
  \/ add_binding_count(p)
  \/ add_binding_cas(p)
  \/ add_binding_inc(p)
  \/ add_binding_reload(p)
  \/ prepend_load(p)
  \/ prepend_cas_head(p)
  \/ alloc_deptbl_node(p)
  \/ prepend_set_next(p)
  \/ prepend_cas(p)
  \/ \E key \in Keys : hh_get_dep(p, key)
  \/ get_dep_load(p)
  \/ get_dep_walk(p)
  \/ dep_return(p)

NextDep == \E p \in Procs : DepStep(p)

\* hh_add_dep alone.  A process that is inside a call goes on running it:
\* the steps of a call are weakly fair.
AddRun(p) ==
  \/ add_binding_load(p)
  \/ add_binding_count(p)
  \/ add_binding_cas(p)
  \/ add_binding_inc(p)
  \/ add_binding_reload(p)
  \/ prepend_load(p)
  \/ prepend_cas_head(p)
  \/ alloc_deptbl_node(p)
  \/ prepend_set_next(p)
  \/ prepend_cas(p)
  \/ dep_return(p)

NextAdd ==
  \E p \in Procs : (\E key \in Keys, val \in Vals : hh_add_dep(p, key, val)) \/ AddRun(p)

AddFair == \A p \in Procs : WF_vars(AddRun(p))

\* The same calls, and hh_get_dep of a key no edge starts from.
NextProbe ==
  \/ \E p \in Procs : DepStep(p)
  \/ \E p \in Procs, key \in ProbeKeys \ Keys : hh_get_dep(p, key)

(***************************************************************************)
(* The calls of the master around the dependency table: the gate of the    *)
(* reads, the count, and the reset of the tables at the end of a save.     *)
(* They are taken in the runs where the master is the only process.        *)
(***************************************************************************)
DepOthers == << storevars, codecvars, ctlvars, attached, allow_removes, wasted_heap_size, mres, sc >>

\* hh_allow_dependency_table_reads(val):
\* *allow_dependency_table_reads = Bool_val(val);
hh_allow_dependency_table_reads(p, val) ==
  /\ p \in attached /\ NoCall(p)
  /\ allow_dependency_table_reads' = val
  /\ DGoto(p, "ret", [DIdle EXCEPT !.op = "allow_reads", !.res = "prev",
                                     !.result = << allow_dependency_table_reads >>])
  /\ UNCHANGED << DepOthers, deptbl, deptbl_bindings, dcounter, order, added >>

\* hh_assert_allow_dependency_table_reads(): assert(*allow_dependency_table_reads);
hh_assert_allow_dependency_table_reads(p) ==
  /\ attached = {p} /\ dpc[p] = "idle"
  /\ DGoto(p, "ret", [DIdle EXCEPT !.op = "assert_reads",
                        !.res = IF allow_dependency_table_reads THEN "unit" ELSE "assert"])
  /\ UNCHANGED << DepOthers, allow_dependency_table_reads, deptbl, deptbl_bindings,
                  dcounter, order, added >>

\* hh_get_in_memory_dep_table_entry_count(): Val_long(*dcounter)
hh_get_in_memory_dep_table_entry_count(p) ==
  /\ attached = {p} /\ dpc[p] = "idle"
  /\ DGoto(p, "ret", [DIdle EXCEPT !.op = "count", !.result = << dcounter >>,
                                   !.res = "count"])
  /\ UNCHANGED << DepOthers, allow_dependency_table_reads, deptbl, deptbl_bindings,
                  dcounter, order, added >>

\* memset(deptbl, 0, dep_size_b); memset(deptbl_bindings, 0, bindings_size_b);
kill_dep_used_slots ==
  /\ deptbl' = [s \in DepSlots |-> EmptyEntry]
  /\ deptbl_bindings' = [s \in DepSlots |-> ZeroWord]

\* hh_swap_in_db, the last step of a save with replace_state_after_saving: the
\* edges are in the database and the tables in memory are wiped; *dcounter is
\* not written.  The histories start again with the tables.
hh_swap_in_db(p) ==
  /\ attached = {p} /\ dpc[p] = "idle"
  /\ kill_dep_used_slots
  /\ order' = [u \in Keys |-> << >>]
  /\ added' = {}
  /\ DGoto(p, "ret", [DIdle EXCEPT !.op = "save", !.res = "unit"])
  /\ UNCHANGED << DepOthers, allow_dependency_table_reads, dcounter >>

NextDepAdmin ==
  \/ NextDep
  \/ \E p \in Procs :
       \/ \E val \in BOOLEAN : hh_allow_dependency_table_reads(p, val)
       \/ hh_assert_allow_dependency_table_reads(p)
       \/ hh_get_in_memory_dep_table_entry_count(p)
       \/ hh_swap_in_db(p)


(***************************************************************************)
(* What the dependency table holds, read off a table nobody is writing.    *)
(***************************************************************************)
\* The slot of the head of `key`, found as hh_get_dep probes for it; -1 when
\* the probe meets an empty slot or has seen every slot.
RECURSIVE head_slot_from(_, _, _, _)
head_slot_from(tbl, key, slot, left) ==
  IF left = 0 \/ tbl[slot] = EmptyEntry THEN -1
  ELSE IF IsHeadOf(tbl[slot], key) THEN slot
  ELSE head_slot_from(tbl, key, next_slot(slot), left - 1)

head_slot(tbl, key) == head_slot_from(tbl, key, key_slot[key], dep_size)

\* The walk of hh_get_dep from `slotval`, consing onto `result`; it stops
\* after dep_size hops and at a next index outside the table.
RECURSIVE list_from(_, _, _, _)
list_from(tbl, slotval, result, left) ==
  IF slotval.next.tag = TAG_NEXT
    THEN IF left = 0 \/ slotval.next.num >= dep_size THEN result
         ELSE list_from(tbl, tbl[slotval.next.num],
                        << tbl[slotval.next.num].key.num >> \o result, left - 1)
    ELSE << slotval.next.num >> \o result

\* The list hh_get_dep(key) returns when no hh_add_dep runs beside it.
edges(tbl, key) ==
  IF head_slot(tbl, key) = -1 THEN << >>
  ELSE list_from(tbl, tbl[head_slot(tbl, key)], << >>, dep_size)

Range(seq) == { seq[i] : i \in 1 .. Len(seq) }
NoRepeat(seq) == \A i, j \in 1 .. Len(seq) : seq[i] = seq[j] => i = j
IsPrefix(a, b) == Len(a) <= Len(b) /\ a = SubSeq(b, 1, Len(a))

(***************************************************************************)
(* The value store: hashtbl, hcounter and the heap.                        *)
(***************************************************************************)
hash_table_pow == 1
MaxHash == 3
HeapLines == 3
BigLen == 60

hashtbl_size == Pow2(hash_table_pow)
HashSlots == 0 .. hashtbl_size - 1
\* get_hash(key): the first 8 bytes of the key; the keys of the model are
\* these numbers.
Hashes == 0 .. MaxHash
Lines == 0 .. HeapLines - 1

NULL == 0
HASHTBL_WRITE_IN_PROGRESS == 1
\* The heap starts at a cache-line aligned address above the tables.
heap_init == 4096
heap_size == HeapLines * CACHE_LINE_SIZE
heap_max == heap_init + heap_size
LineOf(addr) == (addr - heap_init) \div CACHE_LINE_SIZE

Min_long == "Min_long"

Ramp(n) == [i \in 1 .. n |-> i]
Run(b, n) == [i \in 1 .. n |-> b]

\* The values the processes store: a short serialized value and a string that
\* needs two cache lines.
Data ==
  { [kind |-> KIND_SERIALIZED, bytes |-> << 7 >>],
    [kind |-> KIND_STRING, bytes |-> Ramp(BigLen)] }

NoEntry == [header |-> Run(0, 8), data |-> << >>]
EmptySlot == [hash |-> 0, addr |-> NULL]

\* hash & (hashtbl_size - 1)
hash_slot(hash) == hash % hashtbl_size
next_hash_slot(slot) == (slot + 1) % hashtbl_size

\* find_slot on a table nobody is writing: the slot, or -1 where it raises.
RECURSIVE find_slot_from(_, _, _, _)
find_slot_from(tbl, hash, slot, init_slot) ==
  IF tbl[slot].hash = hash \/ tbl[slot].hash = 0 THEN slot
  ELSE IF next_hash_slot(slot) = init_slot THEN -1
  ELSE find_slot_from(tbl, hash, next_hash_slot(slot), init_slot)

find_slot(tbl, hash) == find_slot_from(tbl, hash, hash_slot(hash), hash_slot(hash))

\* hh_mem_inner on a table nobody is writing: 1, -1, -2; 0 where it raises or
\* waits on the sentinel.
mem_status(tbl, hash) ==
  LET slot == find_slot(tbl, hash)
  IN  IF slot = -1 THEN 0
      ELSE IF tbl[slot].hash = hash /\ tbl[slot].addr # NULL
        THEN (IF tbl[slot].addr = HASHTBL_WRITE_IN_PROGRESS THEN 0 ELSE 1)
      ELSE IF tbl[slot].hash = hash THEN -2
      ELSE -1

\* hh_get_and_deserialize on a table nobody is writing, for a key whose
\* status is 1.
stored_value(tbl, hp, hash) == hh_deserialize(hp[LineOf(tbl[find_slot(tbl, hash)].addr)])

\* The history of the master's calls when none has just returned.
NoMres ==
  [tbl |-> [s \in HashSlots |-> EmptySlot], heap |-> [l \in Lines |-> NoEntry],
   top |-> heap_init, wasted |-> 0, hcounter |-> 0]

HIdle ==
  [op |-> "none", hash |-> 0, data |-> NoValue, slot |-> 0, init_slot |-> 0,
   slot_hash |-> 0, good_hash |-> FALSE, addr |-> NULL,
   res |-> "none", sizes |-> << 0, 0 >>, status |-> 0, value |-> NoValue,
   pre |-> 0, pre_value |-> NoValue, incs |-> 0, alloc |-> 0, puts |-> {},
   hash2 |-> 0, chunk |-> NULL]

InitStore ==
  /\ hashtbl = [s \in HashSlots |-> EmptySlot]
  /\ hcounter = 0
  /\ heap = [l \in Lines |-> NoEntry]
  /\ heap_top = heap_init
  /\ hpc = [p \in Procs |-> "idle"]
  /\ hloc = [p \in Procs |-> HIdle]

HGoto(p, label, locals) ==
  /\ hpc' = [hpc EXCEPT ![p] = label]
  /\ hloc' = [hloc EXCEPT ![p] = locals]

\* What is left of the locals when the call is over.
HResult(l, res) ==
  [HIdle EXCEPT !.op = l.op, !.hash = l.hash, !.data = l.data, !.pre = l.pre,
                !.pre_value = l.pre_value, !.incs = l.incs, !.alloc = l.alloc,
                !.puts = l.puts, !.chunk = l.chunk, !.res = res]

\* The call is over with the exception or failed assertion `res`.
HRaise(p, res) == HGoto(p, "ret", HResult(hloc[p], res))

\* The locals at the start of a call.  History, for hh_add: the status and
\* the value of the key in the table at that moment (pre, pre_value), and
\* later what the call added to hcounter (incs) and to *heap (alloc) and
\* what *heap was before (chunk).
HCall(p, op, hash, data) ==
  [HIdle EXCEPT !.op = op, !.hash = hash, !.data = data,
                !.slot = hash_slot(hash), !.init_slot = hash_slot(hash),
                !.pre = IF op = "add" THEN mem_status(hashtbl, hash) ELSE 0,
                !.pre_value = IF op = "add" /\ mem_status(hashtbl, hash) = 1
                                THEN stored_value(hashtbl, heap, hash) ELSE NoValue,
                !.puts = hloc[p].puts]

\* The locals of a call that check_should_exit ended at its entry.
HExit(p, op, hash, data) ==
  [HIdle EXCEPT !.op = op, !.hash = hash, !.data = data,
                !.res = "WorkerShouldExit", !.puts = hloc[p].puts]

(***************************************************************************)
(* hh_add and write_at                                                     *)
(***************************************************************************)
hh_add(p, hash, data) ==
  /\ p \in attached /\ NoCall(p)
  /\ IF check_should_exit(p)
       THEN HGoto(p, "ret", HExit(p, "add", hash, data))
       ELSE HGoto(p, "ha_read", HCall(p, "add", hash, data))
  /\ UNCHANGED << depvars, codecvars, othervars, ctlvars, attached, hashtbl, hcounter, heap, heap_top >>

\* uint64_t slot_hash = hashtbl[slot].hash; if (slot_hash == hash) write_at
hh_add_read(p) ==
  /\ hpc[p] = "ha_read"
  /\ LET slot_hash == hashtbl[hloc[p].slot].hash
     IN  IF slot_hash = hloc[p].hash
           THEN HGoto(p, "wa_cas", hloc[p])
           ELSE HGoto(p, "ha_full", [hloc[p] EXCEPT !.slot_hash = slot_hash])
  /\ UNCHANGED << depvars, codecvars, othervars, ctlvars, attached, hashtbl, hcounter, heap, heap_top >>

\* slot = (slot + 1) & (hashtbl_size - 1); if (slot == init_slot) raise
hh_add_advance(p) ==
  LET slot == next_hash_slot(hloc[p].slot)
  IN  IF slot = hloc[p].init_slot
        THEN HRaise(p, "HashTableFull")
        ELSE HGoto(p, "ha_read", [hloc[p] EXCEPT !.slot = slot, !.slot_hash = 0])

\* if (*hcounter >= hashtbl_size) raise_hash_table_full();
hh_add_full(p) ==
  /\ hpc[p] = "ha_full"
  /\ IF hcounter >= hashtbl_size
       THEN HRaise(p, "HashTableFull")
       ELSE IF hloc[p].slot_hash = 0
         THEN HGoto(p, "ha_cas", hloc[p])
         ELSE hh_add_advance(p)
  /\ UNCHANGED << depvars, codecvars, othervars, ctlvars, attached, hashtbl, hcounter, heap, heap_top >>

\* A claim of the slot by a plain store of the hash.
hh_add_store_hash(p) ==
  /\ hpc[p] = "ha_cas"
  /\ hashtbl' = [hashtbl EXCEPT ![hloc[p].slot].hash = hloc[p].hash]
  /\ HGoto(p, "ha_inc", hloc[p])
  /\ UNCHANGED << depvars, codecvars, othervars, ctlvars, attached, hcounter, heap, heap_top >>

\* __sync_bool_compare_and_swap(&(hashtbl[slot].hash), 0, hash)
hh_add_cas(p) ==
  /\ hpc[p] = "ha_cas"
  /\ IF hashtbl[hloc[p].slot].hash = 0
       THEN /\ hashtbl' = [hashtbl EXCEPT ![hloc[p].slot].hash = hloc[p].hash]
            /\ HGoto(p, "ha_inc", hloc[p])
       ELSE /\ HGoto(p, "ha_reread", hloc[p])
            /\ UNCHANGED hashtbl
  /\ UNCHANGED << depvars, codecvars, othervars, ctlvars, attached, hcounter, heap, heap_top >>

\* uint64_t size = __sync_fetch_and_add(hcounter, 1); assert(size < hashtbl_size)
hh_add_inc(p) ==
  /\ hpc[p] = "ha_inc"
  /\ hcounter' = hcounter + 1
  /\ IF hcounter < hashtbl_size
       THEN HGoto(p, "wa_cas", [hloc[p] EXCEPT !.incs = 1])
       ELSE HRaise(p, "assert")
  /\ UNCHANGED << depvars, codecvars, othervars, ctlvars, attached, hashtbl, heap, heap_top >>

\* if (hashtbl[slot].hash == hash) write_at, after the CAS has failed
hh_add_reread(p) ==
  /\ hpc[p] = "ha_reread"
  /\ IF hashtbl[hloc[p].slot].hash = hloc[p].hash
       THEN HGoto(p, "wa_cas", hloc[p])
       ELSE hh_add_advance(p)
  /\ UNCHANGED << depvars, codecvars, othervars, ctlvars, attached, hashtbl, hcounter, heap, heap_top >>

\* write_at: CAS(&hashtbl[slot].addr, NULL, HASHTBL_WRITE_IN_PROGRESS); the
\* loser returns (Min_long, Min_long).
write_at_cas(p) ==
  /\ hpc[p] = "wa_cas"
  /\ IF hashtbl[hloc[p].slot].addr = NULL
       THEN /\ hashtbl' = [hashtbl EXCEPT ![hloc[p].slot].addr = HASHTBL_WRITE_IN_PROGRESS]
            /\ HGoto(p, "st_alloc", hloc[p])
       ELSE /\ HGoto(p, "ret", [HResult(hloc[p], "lost") EXCEPT
                                  !.sizes = << Min_long, Min_long >>])
            /\ UNCHANGED hashtbl
  /\ UNCHANGED << depvars, codecvars, othervars, ctlvars, attached, hcounter, heap, heap_top >>

\* A heap that refuses a chunk only when the chunk starts beyond its end.
heap_full_late(chunk, slot_size) == chunk > heap_max

\* if (chunk + slot_size > heap_max) raise_heap_full();
heap_full(chunk, slot_size) == chunk + slot_size > heap_max

\* An allocation that leaves *heap where it is.
hh_alloc_no_bump(p) ==
  /\ hpc[p] = "st_alloc"
  /\ LET st == store_ocaml(hloc[p].data)
         slot_size == ALIGNED(Heap_entry_total_size(st.header))
         chunk == heap_top
     IN  /\ heap' = [heap EXCEPT ![LineOf(chunk)] =
                       [header |-> st.header, data |-> st.payload]]
         /\ HGoto(p, "wa_publish",
                  [hloc[p] EXCEPT !.addr = chunk, !.alloc = slot_size, !.chunk = chunk,
                                  !.sizes = << st.alloc_size, st.orig_size >>])
  /\ UNCHANGED << depvars, codecvars, othervars, ctlvars, attached, hashtbl, hcounter, heap_top >>

\* hh_store_ocaml up to the memcpy, with hh_alloc: the fetch-and-add of *heap
\* happens before the test against heap_max, and raise_heap_full leaves the
\* slot as it is.  Nobody reads the chunk before its address is published, so
\* the header and the payload are written in the same step.
hh_alloc(p) ==
  /\ hpc[p] = "st_alloc"
  /\ LET st == store_ocaml(hloc[p].data)
         slot_size == ALIGNED(Heap_entry_total_size(st.header))
         chunk == heap_top
     IN  /\ heap_top' = heap_top + slot_size
         /\ IF heap_full(chunk, slot_size)
              THEN /\ HGoto(p, "ret", HResult([hloc[p] EXCEPT !.alloc = slot_size,
                                                              !.chunk = chunk], "HeapFull"))
                   /\ UNCHANGED heap
              ELSE /\ heap' = [heap EXCEPT ![LineOf(chunk)] =
                                 [header |-> st.header, data |-> st.payload]]
                   /\ HGoto(p, "wa_publish",
                            [hloc[p] EXCEPT !.addr = chunk, !.alloc = slot_size,
                                            !.chunk = chunk,
                                            !.sizes = << st.alloc_size, st.orig_size >>])
  /\ UNCHANGED << depvars, codecvars, othervars, ctlvars, attached, hashtbl, hcounter >>

\* hashtbl[slot].addr = hh_store_ocaml(...); the result is (alloc_size, orig_size)
write_at_publish(p) ==
  /\ hpc[p] = "wa_publish"
  /\ hashtbl' = [hashtbl EXCEPT ![hloc[p].slot].addr = hloc[p].addr]
  /\ HGoto(p, "ret", [HResult(hloc[p], "written") EXCEPT !.sizes = hloc[p].sizes])
  /\ UNCHANGED << depvars, codecvars, othervars, ctlvars, attached, hcounter, heap, heap_top >>

(***************************************************************************)
(* find_slot, hh_mem_inner and hh_get_and_deserialize.  Each read of the   *)
(* table is a step: find_slot reads hashtbl[slot].hash twice.              *)
(***************************************************************************)
hh_mem(p, hash) ==
  /\ p \in attached /\ NoCall(p)
  /\ IF check_should_exit(p)
       THEN HGoto(p, "ret", HExit(p, "mem", hash, NoValue))
       ELSE HGoto(p, "fs_read", HCall(p, "mem", hash, NoValue))
  /\ UNCHANGED << depvars, codecvars, othervars, ctlvars, attached, hashtbl, hcounter, heap, heap_top >>

hh_get_and_deserialize(p, hash) ==
  /\ p \in attached /\ NoCall(p)
  /\ IF check_should_exit(p)
       THEN HGoto(p, "ret", HExit(p, "get", hash, NoValue))
       ELSE HGoto(p, "fs_read", HCall(p, "get", hash, NoValue))
  /\ UNCHANGED << depvars, codecvars, othervars, ctlvars, attached, hashtbl, hcounter, heap, heap_top >>

\* Where find_slot's caller goes on with the slot.
find_slot_found(p) ==
  HGoto(p, IF hloc[p].op = "mem" THEN "mem_hash"
           ELSE IF hloc[p].op = "get" THEN "get_assert" ELSE "size_assert", hloc[p])

\* if (hashtbl[slot].hash == hash) return slot;
find_slot_read(p) ==
  /\ hpc[p] = "fs_read"
  /\ IF hashtbl[hloc[p].slot].hash = hloc[p].hash
       THEN find_slot_found(p)
       ELSE HGoto(p, "fs_read0", hloc[p])
  /\ UNCHANGED << depvars, codecvars, othervars, ctlvars, attached, hashtbl, hcounter, heap, heap_top >>

\* if (hashtbl[slot].hash == 0) return slot; then the next slot, or
\* raise_hash_table_full() back at init_slot
find_slot_read0(p) ==
  /\ hpc[p] = "fs_read0"
  /\ IF hashtbl[hloc[p].slot].hash = 0
       THEN find_slot_found(p)
       ELSE LET slot == next_hash_slot(hloc[p].slot)
            IN  IF slot = hloc[p].init_slot
                  THEN HRaise(p, "HashTableFull")
                  ELSE HGoto(p, "fs_read", [hloc[p] EXCEPT !.slot = slot])
  /\ UNCHANGED << depvars, codecvars, othervars, ctlvars, attached, hashtbl, hcounter, heap, heap_top >>

\* _Bool good_hash = hashtbl[slot].hash == get_hash(key);
hh_mem_hash(p) ==
  /\ hpc[p] = "mem_hash"
  /\ HGoto(p, "mem_addr",
           [hloc[p] EXCEPT !.good_hash = (hashtbl[hloc[p].slot].hash = hloc[p].hash)])
  /\ UNCHANGED << depvars, codecvars, othervars, ctlvars, attached, hashtbl, hcounter, heap, heap_top >>

\* _Bool non_null_addr = hashtbl[slot].addr != NULL; and the three cases
hh_mem_addr(p) ==
  /\ hpc[p] = "mem_addr"
  /\ LET non_null_addr == hashtbl[hloc[p].slot].addr # NULL
     IN  IF hloc[p].good_hash /\ non_null_addr
           THEN HGoto(p, "mem_wait", hloc[p])
           ELSE HGoto(p, "ret", [HResult(hloc[p], "status") EXCEPT
                                   !.status = IF hloc[p].good_hash THEN -2 ELSE -1])
  /\ UNCHANGED << depvars, codecvars, othervars, ctlvars, attached, hashtbl, hcounter, heap, heap_top >>

\* An hh_mem that returns 1 without the loop on the sentinel.
hh_mem_no_wait(p) ==
  /\ hpc[p] = "mem_wait"
  /\ HGoto(p, "ret", [HResult(hloc[p], "status") EXCEPT !.status = 1])
  /\ UNCHANGED << depvars, codecvars, othervars, ctlvars, attached, hashtbl, hcounter, heap, heap_top >>

\* while (hashtbl[slot].addr == HASHTBL_WRITE_IN_PROGRESS) ...; return 1;
hh_mem_wait(p) ==
  /\ hpc[p] = "mem_wait"
  /\ hashtbl[hloc[p].slot].addr # HASHTBL_WRITE_IN_PROGRESS
  /\ HGoto(p, "ret", [HResult(hloc[p], "status") EXCEPT !.status = 1])
  /\ UNCHANGED << depvars, codecvars, othervars, ctlvars, attached, hashtbl, hcounter, heap, heap_top >>

\* The loop has seen the sentinel for more than 60 seconds:
\* caml_failwith("hh_mem busy-wait loop stuck for 60s")
hh_mem_timeout(p) ==
  /\ hpc[p] = "mem_wait"
  /\ hashtbl[hloc[p].slot].addr = HASHTBL_WRITE_IN_PROGRESS
  /\ HRaise(p, "failwith")
  /\ UNCHANGED << depvars, codecvars, othervars, ctlvars, attached, hashtbl, hcounter, heap, heap_top >>

\* assert(hashtbl[slot].hash == get_hash(key));
hh_get_assert(p) ==
  /\ hpc[p] = "get_assert"
  /\ IF hashtbl[hloc[p].slot].hash = hloc[p].hash
       THEN HGoto(p, "get_deref", hloc[p])
       ELSE HRaise(p, "assert")
  /\ UNCHANGED << depvars, codecvars, othervars, ctlvars, attached, hashtbl, hcounter, heap, heap_top >>

\* result = hh_deserialize(hashtbl[slot].addr); NULL and the sentinel are no
\* addresses of mapped memory, reading elt->header there ends the process.
hh_get_deref(p) ==
  /\ hpc[p] = "get_deref"
  /\ LET addr == hashtbl[hloc[p].slot].addr
     IN  IF addr \in {NULL, HASHTBL_WRITE_IN_PROGRESS}
           THEN HRaise(p, "segv")
           ELSE LET v == hh_deserialize(heap[LineOf(addr)])
                IN  IF v = DeserializeAssert
                      THEN HRaise(p, "assert")
                      ELSE HGoto(p, "ret", [HResult(hloc[p], "value") EXCEPT !.value = v])
  /\ UNCHANGED << depvars, codecvars, othervars, ctlvars, attached, hashtbl, hcounter, heap, heap_top >>

(***************************************************************************)
(* hh_get_size.  An OCaml value is a word: an integer n is the odd word     *)
(* 2n + 1 (Val_long), and the integer of a word is the word shifted right   *)
(* by one (Long_val); an even word is no integer but a pointer.            *)
(***************************************************************************)
Val_long(n) == 2 * n + 1

Long_val(w) == w \div 2

\* The value hh_get_size hands to CAMLreturn for an entry of size n.
get_size_value(n) == Long_val(n)

\* hh_get_size(key): it does not call check_should_exit.
hh_get_size(p, hash) ==
  /\ p \in attached /\ NoCall(p)
  /\ HGoto(p, "fs_read", HCall(p, "size", hash, NoValue))
  /\ UNCHANGED << depvars, codecvars, othervars, ctlvars, attached, hashtbl, hcounter, heap, heap_top >>

\* assert(hashtbl[slot].hash == get_hash(key));
hh_get_size_assert(p) ==
  /\ hpc[p] = "size_assert"
  /\ IF hashtbl[hloc[p].slot].hash = hloc[p].hash
       THEN HGoto(p, "size_deref", hloc[p])
       ELSE HRaise(p, "assert")
  /\ UNCHANGED << depvars, codecvars, othervars, ctlvars, attached, hashtbl, hcounter, heap, heap_top >>

\* CAMLreturn(Long_val(Entry_size(hashtbl[slot].addr->header)));  The caller
\* takes the word for an int: it reads Long_val of it, and a word that is
\* even, a pointer to the runtime, may also end the process.
hh_get_size_deref(p) ==
  /\ hpc[p] = "size_deref"
  /\ LET addr == hashtbl[hloc[p].slot].addr
     IN  IF addr \in {NULL, HASHTBL_WRITE_IN_PROGRESS}
           THEN HRaise(p, "segv")
           ELSE LET w == get_size_value(Entry_size(heap[LineOf(addr)].header))
                IN  \E outcome \in (IF w % 2 = 1 THEN {"int"} ELSE {"int", "segv"}) :
                      IF outcome = "int"
                        THEN HGoto(p, "ret", [HResult(hloc[p], "int") EXCEPT
                                                !.status = Long_val(w)])
                        ELSE HRaise(p, "segv")
  /\ UNCHANGED << depvars, codecvars, othervars, ctlvars, attached, hashtbl, hcounter, heap, heap_top >>

\* The caller has the result.  History: the keys whose hh_add has returned to
\* this process and the keys hh_move has moved a value to, kept in the runs
\* with a single attached process.
store_return(p) ==
  /\ hpc[p] = "ret"
  /\ HGoto(p, "idle",
           [HIdle EXCEPT !.puts = IF /\ attached = {1}
                                     /\ hloc[p].op = "add"
                                     /\ hloc[p].res \in {"written", "lost"}
                                    THEN hloc[p].puts \cup {hloc[p].hash}
                                    ELSE IF hloc[p].op = "move" /\ hloc[p].res = "unit"
                                      THEN hloc[p].puts \cup {hloc[p].hash2}
                                      ELSE hloc[p].puts])
  /\ mres' = NoMres
  /\ UNCHANGED << depvars, codecvars, allow_dependency_table_reads, allow_removes,
                  wasted_heap_size, sc, ctlvars, attached, hashtbl, hcounter, heap, heap_top >>

StoreStep(p) ==
  \/ \E hash \in Hashes, data \in Data : hh_add(p, hash, data)
  \/ hh_add_read(p)
  \/ hh_add_full(p)
  \/ hh_add_cas(p)
  \/ hh_add_inc(p)
  \/ hh_add_reread(p)
  \/ write_at_cas(p)
  \/ hh_alloc(p)
  \/ write_at_publish(p)
  \/ \E hash \in Hashes : hh_mem(p, hash)
  \/ \E hash \in Hashes : hh_get_and_deserialize(p, hash)
  \/ find_slot_read(p)
  \/ find_slot_read0(p)
  \/ hh_mem_hash(p)
  \/ hh_mem_addr(p)
  \/ hh_mem_wait(p)
  \/ hh_mem_timeout(p)
  \/ hh_get_assert(p)
  \/ hh_get_deref(p)
  \/ store_return(p)

NextStore == \E p \in Procs : StoreStep(p)

(***************************************************************************)
(* should_collect: the arithmetic of                                       *)
(*   float space_overhead = aggressive ? 1.2 : 2.0;                        *)
(*   used >= (size_t)(space_overhead * reachable)                          *)
(* A float is [m, e], the number m * 2^e with m < 2^24 (binary32, round to *)
(* nearest, ties to even); sizes are below 2^31.                           *)
(***************************************************************************)
RECURSIVE BitLength(_)
BitLength(n) == IF n = 0 THEN 0 ELSE 1 + BitLength(n \div 2)

\* n / 2^s rounded to the nearest integer, ties to even.
RoundShift(n, s) ==
  IF s = 0 THEN n
  ELSE LET q == n \div Pow2(s)
           r == n % Pow2(s)
           half == Pow2(s - 1)
       IN  IF r > half \/ (r = half /\ q % 2 = 1) THEN q + 1 ELSE q

\* The conversion of a size_t to float.
float_of_size(n) ==
  LET s == IF BitLength(n) > 24 THEN BitLength(n) - 24 ELSE 0
  IN  [m |-> RoundShift(n, s), e |-> s]

\* The float product a * b, for a.m < 2^24 and b.m <= 2^24: the exact
\* product hi * 2^24 + lo, rounded to 24 bits.
float_mul(a, b) ==
  LET a1 == a.m \div 4096
      a0 == a.m % 4096
      b1 == b.m \div 4096
      b0 == b.m % 4096
      mid == a1 * b0 + a0 * b1
      lo_sum == (mid % 4096) * 4096 + a0 * b0
      lo == lo_sum % 16777216
      hi == a1 * b1 + mid \div 4096 + lo_sum \div 16777216
      k == BitLength(hi)
  IN  IF k = 0 THEN [m |-> lo, e |-> a.e + b.e]
      ELSE LET q == hi * Pow2(24 - k) + lo \div Pow2(k)
               r == lo % Pow2(k)
               half == Pow2(k - 1)
           IN  [m |-> IF r > half \/ (r = half /\ q % 2 = 1) THEN q + 1 ELSE q,
                e |-> a.e + b.e + k]

\* used >= (size_t)f: the conversion truncates.
size_at_least(used, f) ==
  IF f.e >= 0 THEN used \div Pow2(f.e) >= f.m
  ELSE used >= f.m \div Pow2(0 - f.e)

\* The floats nearest to 1.2 and 2.0: 0x3F99999A and 0x40000000.
space_overhead(aggressive) ==
  IF aggressive THEN [m |-> 10066330, e |-> -23] ELSE [m |-> 8388608, e |-> -22]

\* should_collect(aggressive), with used = used_heap_size() and
\* wasted = get_wasted_heap_size().
should_collect(aggressive, used, wasted) ==
  LET reachable == used - wasted
  IN  size_at_least(used, float_mul(space_overhead(aggressive), float_of_size(reachable)))

\* *heap - heap_init
used_heap_size == heap_top - heap_init

(***************************************************************************)
(* hh_should_collect on heaps of the sizes a server runs with.             *)
(***************************************************************************)
MaxSmall == 12
\* Sizes in cache lines: small heaps, and heaps around 2^24 lines (1 GiB),
\* where a size has more bits than a float keeps.
CollectLines ==
  (0 .. MaxSmall) \cup { 16777216 + d : d \in 0 .. 4 } \cup { 20132660 + d : d \in 0 .. 2 }

NoDecision == [pc |-> "idle", aggressive |-> FALSE, used |-> 0, wasted |-> 0, answer |-> FALSE]

\* The state of the heap the question is asked in: used and wasted bytes,
\* both multiples of the cache line, wasted within used.
heap_sizes(aggressive, used_lines, reachable_lines) ==
  /\ sc.pc = "idle"
  /\ reachable_lines <= used_lines
  /\ sc' = [pc |-> "ask", aggressive |-> aggressive,
            used |-> used_lines * CACHE_LINE_SIZE,
            wasted |-> (used_lines - reachable_lines) * CACHE_LINE_SIZE,
            answer |-> FALSE]
  /\ UNCHANGED << attached, depvars, storevars, codecvars, ctlvars,
                  allow_dependency_table_reads, allow_removes, wasted_heap_size, mres >>

\* hh_should_collect(aggressive_val): Val_bool(should_collect(Bool_val(aggressive_val)))
hh_should_collect ==
  /\ sc.pc = "ask"
  /\ sc' = [sc EXCEPT !.pc = "done",
                      !.answer = should_collect(sc.aggressive, sc.used, sc.wasted)]
  /\ UNCHANGED << attached, depvars, storevars, codecvars, ctlvars,
                  allow_dependency_table_reads, allow_removes, wasted_heap_size, mres >>

decision_reset ==
  /\ sc.pc = "done"
  /\ sc' = NoDecision
  /\ UNCHANGED << attached, depvars, storevars, codecvars, ctlvars,
                  allow_dependency_table_reads, allow_removes, wasted_heap_size, mres >>

NextDecision ==
  \/ \E aggressive \in BOOLEAN, u \in CollectLines, r \in CollectLines :
       heap_sizes(aggressive, u, r)
  \/ hh_should_collect
  \/ decision_reset

(***************************************************************************)
(* hh_remove, hh_move and hh_collect: the calls of the master, each taken   *)
(* as one step.                                                            *)
(***************************************************************************)
MaxHcounter == 3

\* The process whose pid is *master_pid.
master == 1

\* hashtbl = heap_init - hashtbl_size_b; each helt_t has 16 bytes, addr at 8.
hashtbl_base == heap_init - 16 * hashtbl_size
\* (char **)&hashtbl[i].addr
hashtbl_addr(i) == hashtbl_base + 16 * i + 8
\* The slot whose addr field is at address a.
slot_of_addr(a) == (a - hashtbl_base - 8) \div 16
\* The number in a word below 2^31.
WordValue(w) == w[1] + 256 * w[2] + 65536 * w[3] + 16777216 * w[4]

\* The store as a call of the master finds it.
Snapshot ==
  [tbl |-> hashtbl, heap |-> heap, top |-> heap_top, wasted |-> wasted_heap_size,
   hcounter |-> hcounter]

\* The locals of a call of the master that is over.
MResult(p, op, hash, hash2, res) ==
  [HIdle EXCEPT !.op = op, !.hash = hash, !.hash2 = hash2, !.res = res,
                !.puts = hloc[p].puts]

\* assert_master(); assert_allow_removes();
master_asserts(p) == p = master /\ allow_removes

\* hh_allow_removes(val): *allow_removes = Bool_val(val);
hh_allow_removes(p, val) ==
  /\ p \in attached /\ NoCall(p)
  /\ allow_removes' = val
  /\ mres' = Snapshot
  /\ HGoto(p, "ret", MResult(p, "allow_removes", 0, 0, "unit"))
  /\ UNCHANGED << depvars, codecvars, ctlvars, attached, allow_dependency_table_reads,
                  wasted_heap_size, sc, hashtbl, hcounter, heap, heap_top >>

\* A removal that counts the entry without rounding it up to the cache line.
hh_remove_unaligned(p, hash) ==
  /\ p \in attached /\ NoCall(p)
  /\ mres' = Snapshot
  /\ LET slot == find_slot(hashtbl, hash)
         addr == hashtbl[slot].addr
         slot_size == Heap_entry_total_size(heap[LineOf(addr)].header)
         res == IF slot = -1 THEN "HashTableFull"
                ELSE IF ~master_asserts(p) \/ hashtbl[slot].hash # hash THEN "assert"
                ELSE IF addr \in {NULL, HASHTBL_WRITE_IN_PROGRESS} THEN "segv"
                ELSE "unit"
     IN  /\ HGoto(p, "ret", MResult(p, "remove", hash, 0, res))
         /\ IF res = "unit"
              THEN /\ wasted_heap_size' = wasted_heap_size + slot_size
                   /\ hashtbl' = [hashtbl EXCEPT ![slot].addr = NULL]
              ELSE UNCHANGED << wasted_heap_size, hashtbl >>
  /\ UNCHANGED << depvars, codecvars, ctlvars, attached, allow_dependency_table_reads,
                  allow_removes, sc, hcounter, heap, heap_top >>

\* hh_remove(key).  removed_count, a counter of this process that only
\* hh_removed_count reads, is left out.
hh_remove(p, hash) ==
  /\ p \in attached /\ NoCall(p)
  /\ mres' = Snapshot
  /\ LET slot == find_slot(hashtbl, hash)
         addr == hashtbl[slot].addr
         slot_size == ALIGNED(Heap_entry_total_size(heap[LineOf(addr)].header))
         res == IF slot = -1 THEN "HashTableFull"
                ELSE IF ~master_asserts(p) \/ hashtbl[slot].hash # hash THEN "assert"
                ELSE IF addr \in {NULL, HASHTBL_WRITE_IN_PROGRESS} THEN "segv"
                ELSE "unit"
     IN  /\ HGoto(p, "ret", MResult(p, "remove", hash, 0, res))
         /\ IF res = "unit"
              THEN /\ wasted_heap_size' = wasted_heap_size + slot_size
                   /\ hashtbl' = [hashtbl EXCEPT ![slot].addr = NULL]
              ELSE UNCHANGED << wasted_heap_size, hashtbl >>
  /\ UNCHANGED << depvars, codecvars, ctlvars, attached, allow_dependency_table_reads,
                  allow_removes, sc, hcounter, heap, heap_top >>

\* A move that leaves the address in the slot of key1.
hh_move_copy(p, hash1, hash2) ==
  /\ p \in attached /\ NoCall(p)
  /\ hcounter < MaxHcounter
  /\ mres' = Snapshot
  /\ LET slot1 == find_slot(hashtbl, hash1)
         slot2 == find_slot(hashtbl, hash2)
         res == IF slot1 = -1 \/ slot2 = -1 THEN "HashTableFull"
                ELSE IF \/ ~master_asserts(p)
                        \/ hashtbl[slot1].hash # hash1
                        \/ hashtbl[slot2].addr # NULL THEN "assert"
                ELSE "unit"
     IN  /\ HGoto(p, "ret", MResult(p, "move", hash1, hash2, res))
         /\ IF res = "unit"
              THEN /\ hcounter' = IF hashtbl[slot2].hash = 0 THEN hcounter + 1 ELSE hcounter
                   /\ hashtbl' =
                        [hashtbl EXCEPT ![slot2] = [hash |-> hash2, addr |-> hashtbl[slot1].addr]]
              ELSE UNCHANGED << hcounter, hashtbl >>
  /\ UNCHANGED << depvars, codecvars, ctlvars, attached, allow_dependency_table_reads,
                  allow_removes, wasted_heap_size, sc, heap, heap_top >>

\* hh_move(key1, key2)
hh_move(p, hash1, hash2) ==
  /\ p \in attached /\ NoCall(p)
  /\ hcounter < MaxHcounter
  /\ mres' = Snapshot
  /\ LET slot1 == find_slot(hashtbl, hash1)
         slot2 == find_slot(hashtbl, hash2)
         res == IF slot1 = -1 \/ slot2 = -1 THEN "HashTableFull"
                ELSE IF \/ ~master_asserts(p)
                        \/ hashtbl[slot1].hash # hash1
                        \/ hashtbl[slot2].addr # NULL THEN "assert"
                ELSE "unit"
     IN  /\ HGoto(p, "ret", MResult(p, "move", hash1, hash2, res))
         /\ IF res = "unit"
              THEN /\ hcounter' = IF hashtbl[slot2].hash = 0 THEN hcounter + 1 ELSE hcounter
                   /\ hashtbl' =
                        [[hashtbl EXCEPT ![slot2] = [hash |-> hash2, addr |-> hashtbl[slot1].addr]]
                           EXCEPT ![slot1].addr = NULL]
              ELSE UNCHANGED << hcounter, hashtbl >>
  /\ UNCHANGED << depvars, codecvars, ctlvars, attached, allow_dependency_table_reads,
                  allow_removes, wasted_heap_size, sc, heap, heap_top >>

\* Step 1 of hh_collect from slot i on: each slot with an addr takes the header
\* of its entry into the addr field and leaves the address of that field where
\* the header was; assert(hashtbl[i].addr != HASHTBL_WRITE_IN_PROGRESS).
RECURSIVE collect_mark(_, _, _)
collect_mark(tbl, hp, i) ==
  IF i = hashtbl_size THEN [tbl |-> tbl, heap |-> hp, res |-> "marked"]
  ELSE IF tbl[i].addr = NULL THEN collect_mark(tbl, hp, i + 1)
  ELSE IF tbl[i].addr = HASHTBL_WRITE_IN_PROGRESS
    THEN [tbl |-> tbl, heap |-> hp, res |-> "assert"]
  ELSE LET line == LineOf(tbl[i].addr)
       IN  collect_mark([tbl EXCEPT ![i].addr = hp[line].header],
                        [hp EXCEPT ![line].header = WordOfUint31(hashtbl_addr(i))],
                        i + 1)

\* A collector that leaves dest where it is.
dest_stays(dest, aligned_size) == dest

\* dest += aligned_size;
dest_after(dest, aligned_size) == dest + aligned_size

\* A collector that leaves the address of the addr field in the entry.
header_not_restored(hp, src, header) == hp

\* *(hh_header_t *)src = header;
header_restored(hp, src, header) == [hp EXCEPT ![LineOf(src)].header = header]

\* Step 2 of hh_collect: while (src < *heap), an entry whose first word has
\* the lsb set is skipped, another is live and moves to dest.  A word that is
\* no header and no address of an addr field, or one beyond the mapping, ends
\* the process.
RECURSIVE collect_walk(_, _, _, _, _)
collect_walk(tbl, hp, src, dest, top) ==
  IF src >= top THEN [tbl |-> tbl, heap |-> hp, dest |-> dest, res |-> "done"]
  ELSE IF src >= heap_max THEN [tbl |-> tbl, heap |-> hp, dest |-> dest, res |-> "segv"]
  ELSE
    LET word == hp[LineOf(src)].header
    IN  IF word[1] % 2 = 1
          THEN collect_walk(tbl, hp, src + ALIGNED(Heap_entry_total_size(word)), dest, top)
        ELSE IF WordValue(word) = NULL
          THEN [tbl |-> tbl, heap |-> hp, dest |-> dest, res |-> "segv"]
        ELSE
          LET i == slot_of_addr(WordValue(word))
              header == tbl[i].addr
              aligned_size == ALIGNED(Heap_entry_total_size(header))
              restored == header_restored(hp, src, header)
              moved == [restored EXCEPT ![LineOf(dest)] = restored[LineOf(src)]]
          IN  collect_walk([tbl EXCEPT ![i].addr = dest], moved,
                           src + aligned_size, dest_after(dest, aligned_size), top)

\* What the model keeps of a heap that has been compacted: the entries the
\* slots point to.  The bytes from *heap on are written by hh_alloc before
\* anyone reads them.
below_top(tbl, hp) ==
  [l \in Lines |->
     IF \E s \in HashSlots : tbl[s].addr = heap_init + l * CACHE_LINE_SIZE
       THEN hp[l] ELSE NoEntry]

\* hh_collect(aggressive_val).  A failed assertion or a fault in the middle
\* leaves the region as the steps before it made it, and the master is gone.
hh_collect(p, aggressive) ==
  /\ p \in attached /\ NoCall(p)
  /\ mres' = Snapshot
  /\ LET marked == collect_mark(hashtbl, heap, 0)
         walked == collect_walk(marked.tbl, marked.heap, heap_init, heap_init, heap_top)
     IN  IF ~master_asserts(p)
           THEN /\ HGoto(p, "ret", MResult(p, "collect", 0, 0, "assert"))
                /\ UNCHANGED << hashtbl, heap, heap_top, wasted_heap_size >>
         ELSE IF ~should_collect(aggressive, used_heap_size, wasted_heap_size)
           THEN /\ HGoto(p, "ret", MResult(p, "collect", 0, 0, "skipped"))
                /\ UNCHANGED << hashtbl, heap, heap_top, wasted_heap_size >>
         ELSE IF marked.res = "assert"
           THEN /\ HGoto(p, "dead", MResult(p, "collect", 0, 0, "assert"))
                /\ hashtbl' = marked.tbl
                /\ heap' = marked.heap
                /\ UNCHANGED << heap_top, wasted_heap_size >>
         ELSE IF walked.res = "segv"
           THEN /\ HGoto(p, "dead", MResult(p, "collect", 0, 0, "segv"))
                /\ hashtbl' = walked.tbl
                /\ heap' = walked.heap
                /\ UNCHANGED << heap_top, wasted_heap_size >>
         ELSE /\ HGoto(p, "ret", MResult(p, "collect", 0, 0, "compacted"))
              /\ hashtbl' = walked.tbl
              /\ heap' = below_top(walked.tbl, walked.heap)
              /\ heap_top' = walked.dest
              /\ wasted_heap_size' = 0
  /\ UNCHANGED << depvars, codecvars, ctlvars, attached, allow_dependency_table_reads,
                  allow_removes, sc, hcounter >>

\* The steps of a lone process: its compare-and-swap of a hash never fails,
\* so hh_add never rereads the slot.
MasterStep(p) ==
  \/ \E hash \in Hashes, data \in Data : hh_add(p, hash, data)
  \/ hh_add_read(p)
  \/ hh_add_full(p)
  \/ hh_add_cas(p)
  \/ hh_add_inc(p)
  \/ write_at_cas(p)
  \/ hh_alloc(p)
  \/ write_at_publish(p)
  \/ \E hash \in Hashes : hh_mem(p, hash)
  \/ \E hash \in Hashes : hh_get_and_deserialize(p, hash)
  \/ find_slot_read(p)
  \/ find_slot_read0(p)
  \/ hh_mem_hash(p)
  \/ hh_mem_addr(p)
  \/ hh_mem_wait(p)
  \/ hh_mem_timeout(p)
  \/ hh_get_assert(p)
  \/ hh_get_deref(p)
  \/ store_return(p)
  \/ \E val \in BOOLEAN : hh_allow_removes(p, val)
  \/ \E hash \in Hashes : hh_remove(p, hash)
  \/ \E hash1 \in Hashes, hash2 \in Hashes : hh_move(p, hash1, hash2)
  \/ \E aggressive \in BOOLEAN : hh_collect(p, aggressive)

NextMaster == \E p \in Procs : MasterStep(p)

\* The master adding, removing and collecting, with no hh_move: a slot that
\* holds a nonzero hash and no address is the slot of a removed key.
ReuseStep(p) ==
  \/ \E hash \in Hashes, data \in Data : hh_add(p, hash, data)
  \/ hh_add_read(p)
  \/ hh_add_full(p)
  \/ hh_add_cas(p)
  \/ hh_add_inc(p)
  \/ write_at_cas(p)
  \/ hh_alloc(p)
  \/ write_at_publish(p)
  \/ store_return(p)
  \/ \E val \in BOOLEAN : hh_allow_removes(p, val)
  \/ \E hash \in Hashes : hh_remove(p, hash)
  \/ \E aggressive \in BOOLEAN : hh_collect(p, aggressive)

NextReuse == \E p \in Procs : ReuseStep(p)

(***************************************************************************)
(* The flags of the workers and the global storage.  Each access to the    *)
(* shared region is a step: hh_shared_store writes the length and then     *)
(* copies the bytes, hh_shared_load reads the length and then copies.      *)
(***************************************************************************)
\* The global storage holds GlobalBytes bytes after its length word.
GlobalBytes == 3
\* sizeof(value)
WordBytes == 8
global_size_b == WordBytes + GlobalBytes
BlobBytes == {7, 9}
Blobs == UNION { [1 .. n -> BlobBytes] : n \in 0 .. GlobalBytes }
NoBlob == << -1 >>

GIdle == [op |-> "none", arg |-> NoBlob, size |-> 0, result |-> NoBlob,
          pre |-> NoBlob, res |-> "none"]

InitControl ==
  /\ workers_should_exit = FALSE
  /\ worker_can_exit = [p \in Procs |-> TRUE]
  /\ global_storage = [size |-> 0, bytes |-> [i \in 1 .. GlobalBytes |-> 0]]
  /\ gpc = [p \in Procs |-> "idle"]
  /\ gloc = [p \in Procs |-> GIdle]
  /\ stored_blob = NoBlob

GGoto(p, label, locals) ==
  /\ gpc' = [gpc EXCEPT ![p] = label]
  /\ gloc' = [gloc EXCEPT ![p] = locals]

\* What the calls of this section leave alone besides their own variables.
ControlOthers ==
  << attached, depvars, storevars, codecvars, othervars,
     counter, counter_mapped, early_counter, kpc, issued, returned, hd >>

\* assert_master(): my_pid == *master_pid
assert_master(p) == p = master

\* hh_stop_workers: assert_master(); *workers_should_exit = 1;
hh_stop_workers(p) ==
  /\ p \in attached /\ NoCall(p)
  /\ IF assert_master(p)
       THEN /\ workers_should_exit' = TRUE
            /\ GGoto(p, "ret", [GIdle EXCEPT !.op = "stop_workers", !.res = "unit"])
       ELSE /\ UNCHANGED workers_should_exit
            /\ GGoto(p, "ret", [GIdle EXCEPT !.op = "stop_workers", !.res = "assert"])
  /\ UNCHANGED << ControlOthers, worker_can_exit, global_storage, stored_blob >>

\* hh_resume_workers: assert_master(); *workers_should_exit = 0;
hh_resume_workers(p) ==
  /\ p \in attached /\ NoCall(p)
  /\ IF assert_master(p)
       THEN /\ workers_should_exit' = FALSE
            /\ GGoto(p, "ret", [GIdle EXCEPT !.op = "resume_workers", !.res = "unit"])
       ELSE /\ UNCHANGED workers_should_exit
            /\ GGoto(p, "ret", [GIdle EXCEPT !.op = "resume_workers", !.res = "assert"])
  /\ UNCHANGED << ControlOthers, worker_can_exit, global_storage, stored_blob >>

\* hh_set_can_worker_stop(val): worker_can_exit = Bool_val(val);
hh_set_can_worker_stop(p, val) ==
  /\ p \in attached /\ NoCall(p)
  /\ worker_can_exit' = [worker_can_exit EXCEPT ![p] = val]
  /\ GGoto(p, "ret", [GIdle EXCEPT !.op = "set_can_worker_stop", !.res = "unit"])
  /\ UNCHANGED << ControlOthers, workers_should_exit, global_storage, stored_blob >>

\* hh_shared_store(data): the three assertions and global_storage[0] = size;
hh_shared_store(p, data) ==
  /\ p \in attached /\ NoCall(p)
  /\ LET size == Len(data)
         ok == /\ assert_master(p)
               /\ global_storage.size = 0
               /\ size < global_size_b - WordBytes
         l == [GIdle EXCEPT !.op = "store", !.arg = data, !.size = size]
     IN  IF ok
           THEN /\ global_storage' = [global_storage EXCEPT !.size = size]
                /\ stored_blob' = NoBlob
                /\ GGoto(p, "gs_copy", l)
           ELSE /\ UNCHANGED << global_storage, stored_blob >>
                /\ GGoto(p, "ret", [l EXCEPT !.res = "assert"])
  /\ UNCHANGED << ControlOthers, workers_should_exit, worker_can_exit >>

\* memcpy(&global_storage[1], &Field(data, 0), size);
hh_shared_store_copy(p) ==
  /\ gpc[p] = "gs_copy"
  /\ LET l == gloc[p]
     IN  /\ global_storage' =
              [global_storage EXCEPT !.bytes =
                 [i \in 1 .. GlobalBytes |-> IF i <= l.size THEN l.arg[i] ELSE @[i]]]
         /\ stored_blob' = l.arg
         /\ GGoto(p, "ret", [l EXCEPT !.res = "unit"])
  /\ UNCHANGED << ControlOthers, workers_should_exit, worker_can_exit >>

\* hh_shared_load: size_t size = global_storage[0]; assert(size != 0);
hh_shared_load(p) ==
  /\ p \in attached /\ NoCall(p)
  /\ LET l == [GIdle EXCEPT !.op = "load", !.size = global_storage.size,
                            !.pre = stored_blob]
     IN  IF l.size # 0
           THEN GGoto(p, "gl_copy", l)
           ELSE GGoto(p, "ret", [l EXCEPT !.res = "assert"])
  /\ UNCHANGED << ControlOthers, workers_should_exit, worker_can_exit,
                  global_storage, stored_blob >>

\* memcpy(&Field(result, 0), &global_storage[1], size);
hh_shared_load_copy(p) ==
  /\ gpc[p] = "gl_copy"
  /\ LET l == gloc[p]
     IN  GGoto(p, "ret", [l EXCEPT !.res = "value",
                                   !.result = SubSeq(global_storage.bytes, 1, l.size)])
  /\ UNCHANGED << ControlOthers, workers_should_exit, worker_can_exit,
                  global_storage, stored_blob >>

\* hh_shared_clear: assert_master(); global_storage[0] = 0;  History: the
\* loads in flight no longer have a stored blob to return.
hh_shared_clear(p) ==
  /\ p \in attached /\ NoCall(p)
  /\ IF assert_master(p)
       THEN /\ global_storage' = [global_storage EXCEPT !.size = 0]
            /\ stored_blob' = NoBlob
            /\ gpc' = [gpc EXCEPT ![p] = "ret"]
            /\ gloc' = [q \in Procs |->
                          IF q = p THEN [GIdle EXCEPT !.op = "clear", !.res = "unit"]
                          ELSE [gloc[q] EXCEPT !.pre = NoBlob]]
       ELSE /\ UNCHANGED << global_storage, stored_blob >>
            /\ GGoto(p, "ret", [GIdle EXCEPT !.op = "clear", !.res = "assert"])
  /\ UNCHANGED << ControlOthers, workers_should_exit, worker_can_exit >>

\* The call is over.
control_return(p) ==
  /\ gpc[p] = "ret"
  /\ GGoto(p, "idle", GIdle)
  /\ UNCHANGED << ControlOthers, workers_should_exit, worker_can_exit,
                  global_storage, stored_blob >>

GlobalStep(p) ==
  \/ \E data \in Blobs : hh_shared_store(p, data)
  \/ hh_shared_store_copy(p)
  \/ hh_shared_load(p)
  \/ hh_shared_load_copy(p)
  \/ hh_shared_clear(p)
  \/ control_return(p)

NextGlobal == \E p \in Procs : GlobalStep(p)

(***************************************************************************)
(* hh_counter_next, from the start of the master on: before               *)
(* hh_shared_init the master counts in early_counter; a worker takes part  *)
(* once it has the region (hh_connect, or a fork of the master after       *)
(* hh_shared_init, which leaves it with the same globals).                 *)
(***************************************************************************)
\* The runs stop counting at MaxCounter.
MaxCounter == 6

KIdle == [pc |-> "idle", v |-> 0]

\* What the calls of this section leave alone besides their own variables.
CounterOthers ==
  << attached, depvars, storevars, codecvars, othervars,
     workers_should_exit, worker_can_exit, global_storage, gpc, gloc, stored_blob, hd >>

\* The globals of a process at its start: counter = NULL, early_counter = 1.
InitEarly ==
  /\ counter = 0
  /\ counter_mapped = [p \in Procs |-> FALSE]
  /\ early_counter = [p \in Procs |-> 1]
  /\ kpc = [p \in Procs |-> KIdle]
  /\ issued = {}
  /\ returned = {}

\* After hh_shared_init by a master that had not called hh_counter_next, and
\* with every process on the region.
InitCounter ==
  /\ counter = 2
  /\ counter_mapped = [p \in Procs |-> TRUE]
  /\ early_counter = [p \in Procs |-> 1]
  /\ kpc = [p \in Procs |-> KIdle]
  /\ issued = {}
  /\ returned = {}

counter_init_same(early) == early

\* init_shared_globals: *counter = early_counter + 1;
counter_init(early) == early + 1

\* hh_shared_init, for the counter: define_globals maps it and
\* init_shared_globals sets it.
hh_shared_init(p) ==
  /\ p = master /\ ~counter_mapped[p] /\ kpc[p].pc = "idle"
  /\ counter_mapped' = [counter_mapped EXCEPT ![p] = TRUE]
  /\ counter' = counter_init(early_counter[p])
  /\ UNCHANGED << CounterOthers, early_counter, kpc, issued, returned >>

\* hh_connect(connector, is_master) by a worker, is_master being false:
\* define_globals maps the counter.
hh_connect(p) ==
  /\ p # master /\ counter_mapped[master] /\ ~counter_mapped[p]
  /\ counter_mapped' = [counter_mapped EXCEPT ![p] = TRUE]
  /\ UNCHANGED << CounterOthers, counter, early_counter, kpc, issued, returned >>

\* Val_long(v % Max_long): Max_long is 2^62 - 1 and v stays below MaxCounter
\* in these runs, where the remainder is v.
wrap_long(v) == v

\* ++early_counter
early_next(n) == n + 1

\* hh_counter_next: v = counter ? __sync_fetch_and_add(counter, 1)
\*                               : ++early_counter;
hh_counter_next(p) ==
  /\ p = master \/ counter_mapped[p]
  /\ kpc[p].pc = "idle"
  /\ counter < MaxCounter /\ early_counter[p] < MaxCounter
  /\ LET v == IF counter_mapped[p] THEN counter ELSE early_next(early_counter[p])
     IN  /\ kpc' = [kpc EXCEPT ![p] = [pc |-> "fetched", v |-> wrap_long(v)]]
         /\ issued' = issued \cup {wrap_long(v)}
  /\ IF counter_mapped[p]
       THEN /\ counter' = counter + 1
            /\ UNCHANGED early_counter
       ELSE /\ early_counter' = [early_counter EXCEPT ![p] = @ + 1]
            /\ UNCHANGED counter
  /\ UNCHANGED << CounterOthers, counter_mapped, returned >>

\* CAMLreturn(result)
counter_return(p) ==
  /\ kpc[p].pc = "fetched"
  /\ returned' = returned \cup {kpc[p].v}
  /\ kpc' = [kpc EXCEPT ![p] = KIdle]
  /\ UNCHANGED << CounterOthers, counter, counter_mapped, early_counter, issued >>

NextCounter ==
  \E p \in Procs :
    \/ hh_shared_init(p)
    \/ hh_connect(p)
    \/ hh_counter_next(p)
    \/ counter_return(p)

(***************************************************************************)
(* The five polling operations under hh_stop_workers, hh_resume_workers    *)
(* and hh_set_can_worker_stop, on a few edges and keys.                    *)
(***************************************************************************)
CancelKeys == {1}
CancelVals == {0, 1}
CancelHashes == {1, 3}
CancelData == { d \in Data : Len(d.bytes) = 1 }

CancelStep(p) ==
  \/ hh_stop_workers(p)
  \/ hh_resume_workers(p)
  \/ \E val \in BOOLEAN : hh_set_can_worker_stop(p, val)
  \/ control_return(p)
  \/ \E key \in CancelKeys, val \in CancelVals : hh_add_dep(p, key, val)
  \/ add_binding_load(p)
  \/ add_binding_count(p)
  \/ add_binding_cas(p)
  \/ add_binding_inc(p)
  \/ add_binding_reload(p)
  \/ prepend_load(p)
  \/ prepend_cas_head(p)
  \/ alloc_deptbl_node(p)
  \/ prepend_set_next(p)
  \/ prepend_cas(p)
  \/ \E key \in CancelKeys : hh_get_dep(p, key)
  \/ get_dep_load(p)
  \/ get_dep_walk(p)
  \/ dep_return(p)
  \/ \E hash \in CancelHashes, data \in CancelData : hh_add(p, hash, data)
  \/ hh_add_read(p)
  \/ hh_add_full(p)
  \/ hh_add_cas(p)
  \/ hh_add_inc(p)
  \/ hh_add_reread(p)
  \/ write_at_cas(p)
  \/ hh_alloc(p)
  \/ write_at_publish(p)
  \/ \E hash \in CancelHashes : hh_mem(p, hash)
  \/ \E hash \in CancelHashes : hh_get_and_deserialize(p, hash)
  \/ find_slot_read(p)
  \/ find_slot_read0(p)
  \/ hh_mem_hash(p)
  \/ hh_mem_addr(p)
  \/ hh_mem_wait(p)
  \/ hh_mem_timeout(p)
  \/ hh_get_assert(p)
  \/ hh_get_deref(p)
  \/ store_return(p)

NextCancel == \E p \in Procs : CancelStep(p)

(***************************************************************************)
(* The calls reserved to the master, made by the master and by a worker,   *)
(* on a store that the master fills.                                       *)
(***************************************************************************)
GateHashes == {1}
GateTargets == {2}
GateRemoved == {1, 3}
GateBlobs == { b \in Blobs : Len(b) = 1 /\ b[1] = 7 }

GateStep(p) ==
  \/ hh_add_read(p)
  \/ hh_add_full(p)
  \/ hh_add_cas(p)
  \/ hh_add_inc(p)
  \/ write_at_cas(p)
  \/ hh_alloc(p)
  \/ write_at_publish(p)
  \/ store_return(p)
  \/ \E val \in BOOLEAN : hh_allow_removes(p, val)
  \/ \E hash \in GateRemoved : hh_remove(p, hash)
  \/ \E hash1 \in GateHashes, hash2 \in GateTargets : hh_move(p, hash1, hash2)
  \/ \E aggressive \in BOOLEAN : hh_collect(p, aggressive)
  \/ \E val \in BOOLEAN : hh_allow_dependency_table_reads(p, val)
  \/ dep_return(p)
  \/ hh_stop_workers(p)
  \/ hh_resume_workers(p)
  \/ \E data \in GateBlobs : hh_shared_store(p, data)
  \/ hh_shared_store_copy(p)
  \/ hh_shared_clear(p)
  \/ control_return(p)

NextGate ==
  \/ \E hash \in GateHashes, data \in CancelData : hh_add(master, hash, data)
  \/ \E p \in Procs : GateStep(p)

(***************************************************************************)
(* hh_mem beside the writers of the entries.  A process that is inside a   *)
(* call goes on running it: its steps are weakly fair, the step of the     *)
(* timeout among them, since the clock of the loop advances.               *)
(***************************************************************************)
WaitHashes == {1, 3}
\* Entries of which the heap holds one and not two.
WaitData == { d \in Data : d.kind = KIND_STRING }

WaitCall(p) ==
  \/ \E hash \in WaitHashes, data \in WaitData : hh_add(p, hash, data)
  \/ \E hash \in WaitHashes : hh_mem(p, hash)

WaitRun(p) ==
  \/ hh_add_read(p)
  \/ hh_add_full(p)
  \/ hh_add_cas(p)
  \/ hh_add_inc(p)
  \/ hh_add_reread(p)
  \/ write_at_cas(p)
  \/ hh_alloc(p)
  \/ write_at_publish(p)
  \/ find_slot_read(p)
  \/ find_slot_read0(p)
  \/ hh_mem_hash(p)
  \/ hh_mem_addr(p)
  \/ hh_mem_wait(p)
  \/ hh_mem_timeout(p)
  \/ store_return(p)

NextWait == \E p \in Procs : WaitCall(p) \/ WaitRun(p)

WaitFair == \A p \in Procs : WF_vars(WaitRun(p))

(***************************************************************************)
(* The writing of an entry, store by store: hh_alloc takes the chunk and   *)
(* writes the header, hh_store_ocaml copies the payload, and write_at      *)
(* stores the address into the slot; beside it the readers of the slots.   *)
(***************************************************************************)
PublishHashes == {1, 3}

\* hh_alloc: __sync_fetch_and_add, the test against heap_max, and
\* ((heap_entry_t *)chunk)->header = header;
hh_alloc_chunk(p) ==
  /\ hpc[p] = "st_alloc"
  /\ LET st == store_ocaml(hloc[p].data)
         slot_size == ALIGNED(Heap_entry_total_size(st.header))
         chunk == heap_top
     IN  /\ heap_top' = heap_top + slot_size
         /\ IF heap_full(chunk, slot_size)
              THEN /\ HGoto(p, "ret", HResult([hloc[p] EXCEPT !.alloc = slot_size,
                                                              !.chunk = chunk], "HeapFull"))
                   /\ UNCHANGED heap
              ELSE /\ heap' = [heap EXCEPT ![LineOf(chunk)].header = st.header]
                   /\ HGoto(p, "st_memcpy",
                            [hloc[p] EXCEPT !.addr = chunk, !.alloc = slot_size,
                                            !.chunk = chunk,
                                            !.sizes = << st.alloc_size, st.orig_size >>])
  /\ UNCHANGED << depvars, codecvars, othervars, ctlvars, attached, hashtbl, hcounter >>

\* An hh_store_ocaml that returns the chunk without the copy.
hh_store_no_memcpy(p) ==
  /\ hpc[p] = "st_memcpy"
  /\ HGoto(p, "wa_publish", hloc[p])
  /\ UNCHANGED << depvars, codecvars, othervars, ctlvars, attached, hashtbl, hcounter, heap, heap_top >>

\* memcpy(&addr->data, uncompressed_size ? compressed_data : value, size);
hh_store_memcpy(p) ==
  /\ hpc[p] = "st_memcpy"
  /\ heap' = [heap EXCEPT ![LineOf(hloc[p].addr)].data = store_ocaml(hloc[p].data).payload]
  /\ HGoto(p, "wa_publish", hloc[p])
  /\ UNCHANGED << depvars, codecvars, othervars, ctlvars, attached, hashtbl, hcounter, heap_top >>

PublishStep(p) ==
  \/ \E hash \in PublishHashes, data \in Data : hh_add(p, hash, data)
  \/ hh_add_read(p)
  \/ hh_add_full(p)
  \/ hh_add_cas(p)
  \/ hh_add_inc(p)
  \/ hh_add_reread(p)
  \/ write_at_cas(p)
  \/ hh_alloc_chunk(p)
  \/ hh_store_memcpy(p)
  \/ write_at_publish(p)
  \/ \E hash \in PublishHashes : hh_get_and_deserialize(p, hash)
  \/ find_slot_read(p)
  \/ find_slot_read0(p)
  \/ hh_get_assert(p)
  \/ hh_get_deref(p)
  \/ store_return(p)

NextPublish == \E p \in Procs : PublishStep(p)

(***************************************************************************)
(* The header of an entry of any size: hh_store_ocaml builds it, the       *)
(* Entry_ macros take it apart, and hh_collect tells it from the address   *)
(* of an addr field by its lowest bit.                                     *)
(***************************************************************************)
\* assert(size < 0x80000000): the largest size of an entry.
MaxEntrySize == 2147483647

HeaderSizes ==
  {0, 1, 127, 128, 32767, 32768, 8388607, 8388608, MaxEntrySize - 1, MaxEntrySize}

NoHeader == [pc |-> "idle", size |-> 0, kind |-> 0, uncompressed_size |-> 0,
             word |-> Run(0, 8), fields |-> << 0, 0, 0 >>]

InitHeader == hd = NoHeader

HeaderOthers == << attached, depvars, storevars, codecvars, othervars,
                   workers_should_exit, worker_can_exit, global_storage, gpc, gloc,
                   stored_blob, counter, counter_mapped, early_counter, kpc, issued,
                   returned >>

\* hh_header_t header = size << 33 | (uint64_t)kind << 32 | uncompressed_size << 1 | 1;
header_make(size, kind, uncompressed_size) ==
  /\ hd.pc = "idle"
  /\ hd' = [NoHeader EXCEPT !.pc = "header", !.size = size, !.kind = kind,
                            !.uncompressed_size = uncompressed_size,
                            !.word = MakeHeader(size, kind, uncompressed_size)]
  /\ UNCHANGED HeaderOthers

\* Entry_size(header), Entry_kind(header), Entry_uncompressed_size(header)
header_fields ==
  /\ hd.pc = "header"
  /\ hd' = [hd EXCEPT !.pc = "fields",
                      !.fields = << Entry_size(hd.word), Entry_kind(hd.word),
                                    Entry_uncompressed_size(hd.word) >>]
  /\ UNCHANGED HeaderOthers

\* *(uintptr_t *)heap_addr = (uintptr_t)hashtbl_addr;  for the slot i
collect_pointer(i) ==
  /\ hd.pc = "idle"
  /\ hd' = [NoHeader EXCEPT !.pc = "pointer", !.size = i,
                            !.word = WordOfUint31(hashtbl_addr(i))]
  /\ UNCHANGED HeaderOthers

header_reset ==
  /\ hd.pc \in {"fields", "pointer"}
  /\ hd' = NoHeader
  /\ UNCHANGED HeaderOthers

NextHeader ==
  \/ \E size \in HeaderSizes, kind \in {KIND_SERIALIZED, KIND_STRING},
        uncompressed_size \in HeaderSizes : header_make(size, kind, uncompressed_size)
  \/ header_fields
  \/ \E i \in HashSlots : collect_pointer(i)
  \/ header_reset

(***************************************************************************)
(* The writers of both tables side by side: hh_add_dep on edges whose keys *)
(* meet in the probe sequences, hh_add on hashes that share a home slot.   *)
(***************************************************************************)
SlotEdges == { << 0, 1 >>, << 1, 1 >>, << 1, 2 >> }
SlotHashes == {1, 3}

SlotsCall(p) ==
  \/ \E e \in SlotEdges : hh_add_dep(p, e[1], e[2])
  \/ \E hash \in SlotHashes, data \in CancelData : hh_add(p, hash, data)

SlotsRun(p) ==
  \/ AddRun(p)
  \/ hh_add_read(p)
  \/ hh_add_full(p)
  \/ hh_add_cas(p)
  \/ hh_add_inc(p)
  \/ hh_add_reread(p)
  \/ write_at_cas(p)
  \/ hh_alloc(p)
  \/ write_at_publish(p)
  \/ store_return(p)

NextSlots == \E p \in Procs : SlotsCall(p) \/ SlotsRun(p)

(***************************************************************************)
(* hh_get_size on the keys a lone process has added.                       *)
(***************************************************************************)
SizeStep(p) ==
  \/ \E hash \in Hashes, data \in Data : hh_add(p, hash, data)
  \/ hh_add_read(p)
  \/ hh_add_full(p)
  \/ hh_add_cas(p)
  \/ hh_add_inc(p)
  \/ write_at_cas(p)
  \/ hh_alloc(p)
  \/ write_at_publish(p)
  \/ \E hash \in Hashes : hh_get_size(p, hash)
  \/ find_slot_read(p)
  \/ find_slot_read0(p)
  \/ hh_get_size_assert(p)
  \/ hh_get_size_deref(p)
  \/ store_return(p)

NextSize == \E p \in Procs : SizeStep(p)

(***************************************************************************)
(* The round trip of one value through hh_store_ocaml and hh_deserialize,  *)
(* for values of every shape the encoder distinguishes.                    *)
(***************************************************************************)
MaxLen == 3
MaxRun == 40
LongLen == 300

CodecBytes ==
  UNION { [1 .. n -> {0, 255}] : n \in 0 .. MaxLen }
    \cup { Ramp(n) : n \in 0 .. MaxRun }
    \cup { Run(b, n) \o tail : b \in {0, 65}, n \in 1 .. MaxRun,
                               tail \in {<< 1, 2, 3, 4, 5 >>, << 65, 65, 65, 65, 65 >>, << >>} }
    \cup { Ramp(LongLen), Run(9, LongLen) }

CodecInputs == { [kind |-> k, bytes |-> b] : k \in {KIND_STRING, KIND_SERIALIZED}, b \in CodecBytes }

NoSizes == << 0, 0 >>

InitCodec ==
  /\ cpc = "idle"
  /\ cval = NoValue
  /\ centry = NoEntry
  /\ cout = [sizes |-> NoSizes, value |-> NoValue]

\* The caller picks the value to store.
codec_input(data) ==
  /\ cpc = "idle"
  /\ cpc' = "store"
  /\ cval' = data
  /\ centry' = NoEntry
  /\ cout' = [sizes |-> NoSizes, value |-> NoValue]
  /\ UNCHANGED << depvars, storevars, othervars, ctlvars, attached >>

\* hh_store_ocaml into a chunk of ALIGNED(Heap_entry_total_size(header))
\* bytes; what the chunk held after the payload stays there.
codec_store(fill) ==
  /\ cpc = "store"
  /\ LET st == store_ocaml(cval)
         room == ALIGNED(Heap_entry_total_size(st.header)) - HeaderBytes
     IN  /\ centry' = [header |-> st.header,
                       data |-> st.payload \o Run(fill, room - Len(st.payload))]
         /\ cout' = [cout EXCEPT !.sizes = << st.alloc_size, st.orig_size >>]
  /\ cpc' = "load"
  /\ UNCHANGED << depvars, storevars, othervars, ctlvars, attached, cval >>

codec_load ==
  /\ cpc = "load"
  /\ cout' = [cout EXCEPT !.value = hh_deserialize(centry)]
  /\ cpc' = "done"
  /\ UNCHANGED << depvars, storevars, othervars, ctlvars, attached, cval, centry >>

codec_reset ==
  /\ cpc = "done"
  /\ cpc' = "idle"
  /\ cval' = NoValue
  /\ centry' = NoEntry
  /\ cout' = [sizes |-> NoSizes, value |-> NoValue]
  /\ UNCHANGED << depvars, storevars, othervars, ctlvars, attached >>

NextCodec ==
  \/ \E data \in CodecInputs : codec_input(data)
  \/ \E fill \in {0, 255} : codec_store(fill)
  \/ codec_load
  \/ codec_reset

(***************************************************************************)
(* Specifications: each part of the region on its own, and all of it.      *)
(***************************************************************************)
\* init_shared_globals: *wasted_heap_size = 0; *allow_removes = 1;
\* *allow_dependency_table_reads = 1;
InitGlobals ==
  /\ allow_dependency_table_reads = TRUE
  /\ allow_removes = TRUE
  /\ wasted_heap_size = 0
  /\ mres = NoMres

InitRegion ==
  /\ InitDep /\ InitStore /\ InitCodec /\ InitGlobals /\ sc = NoDecision /\ InitControl
  /\ InitHeader

Init == InitRegion /\ InitCounter

\* The region with the workers attached.
InitWorkers == Init /\ attached = Procs

\* The master before hh_shared_init, the region as hh_shared_init will make it.
InitStart == InitRegion /\ InitEarly

\* The region before any worker has attached.
InitMaster == Init /\ attached = {master}

Next ==
  \/ NextDepAdmin \/ NextProbe \/ NextStore \/ NextMaster \/ NextCodec \/ NextDecision
  \/ NextSlots \/ NextHeader \/ NextAdd \/ NextPublish \/ NextCancel \/ NextGate \/ NextGlobal \/ NextCounter \/ NextWait \/ NextSize \/ NextReuse

SpecDep == Init /\ [][NextDep]_vars
SpecStore == Init /\ [][NextStore]_vars
SpecCodec == Init /\ [][NextCodec]_vars
SpecAdd == Init /\ [][NextAdd]_vars /\ AddFair
SpecProbe == Init /\ [][NextProbe]_vars
SpecDepAdmin == Init /\ [][NextDepAdmin]_vars
SpecDecision == Init /\ [][NextDecision]_vars
SpecMaster == InitMaster /\ [][NextMaster]_vars
SpecCancel == InitWorkers /\ [][NextCancel]_vars
SpecGate == InitWorkers /\ [][NextGate]_vars
SpecGlobal == InitWorkers /\ [][NextGlobal]_vars
SpecWait == InitWorkers /\ [][NextWait]_vars /\ WaitFair
SpecPublish == InitWorkers /\ [][NextPublish]_vars
SpecHeader == InitMaster /\ [][NextHeader]_vars
SpecSlots == InitWorkers /\ [][NextSlots]_vars
SpecSize == InitMaster /\ [][NextSize]_vars
SpecReuse == InitMaster /\ [][NextReuse]_vars
SpecCounter == InitStart /\ [][NextCounter]_vars
Spec == Init /\ [][Next]_vars

(***************************************************************************)
(* Properties of the dependency table.                                     *)
(***************************************************************************)
DepQuiet == \A p \in Procs : dpc[p] \in {"idle", "ret"}

\* C1: with a single process, hh_get_dep(u) returns each v whose
\* hh_add_dep(u, v) has returned exactly once, and nothing else, for every u
\* and v of the range, 0 included.
C1_GetReturnsAdded ==
  \A p \in Procs :
    (attached = {1} /\ dpc[p] = "ret" /\ dloc[p].op = "get" /\ dloc[p].res = "list")
      => /\ NoRepeat(dloc[p].result)
         /\ Range(dloc[p].result) = { v \in Vals : << dloc[p].key, v >> \in added }

\* C2: when a call hh_add_dep(u, v) returns, as the inserter or because it
\* found the binding in deptbl_bindings, v is in the list of u.
C2_ReturnedEdgeReachable ==
  \A p \in Procs :
    (dpc[p] = "ret" /\ dloc[p].op = "add" /\ dloc[p].res \in {"dup", "new"})
      => dloc[p].val \in Range(edges(deptbl, dloc[p].key))

\* C3: when the calls hh_add_dep(u, v1) and hh_add_dep(u, v2) of two
\* processes, v1 # v2, have both returned, the list of u holds v1 and v2
\* exactly once each.
C3_ConcurrentAddsAllLinked ==
  \A p, q \in Procs :
    ( /\ p # q
      /\ dpc[p] = "ret" /\ dloc[p].op = "add" /\ dloc[p].res \in {"dup", "new"}
      /\ dpc[q] = "ret" /\ dloc[q].op = "add" /\ dloc[q].res \in {"dup", "new"}
      /\ dloc[p].key = dloc[q].key /\ dloc[p].val # dloc[q].val )
      => /\ NoRepeat(edges(deptbl, dloc[p].key))
         /\ {dloc[p].val, dloc[q].val} \subseteq Range(edges(deptbl, dloc[p].key))

StoredBindings == { s \in DepSlots : deptbl_bindings[s] # ZeroWord }
ListedEdges == { << u, v >> \in Keys \X Vals : v \in Range(edges(deptbl, u)) }

\* C4: no list ever holds a value twice, no binding is in the filter twice,
\* dcounter counts the bindings (each once, the increment following its CAS),
\* and when no hh_add_dep is in flight the lists hold exactly the bindings, so
\* that a repeated hh_add_dep has added nothing.
C4_DuplicateAddChangesNothing ==
  /\ \A u \in Keys : NoRepeat(edges(deptbl, u))
  /\ \A s, t \in StoredBindings : deptbl_bindings[s] = deptbl_bindings[t] => s = t
  /\ dcounter + Cardinality({ p \in Procs : dpc[p] = "ab_inc" }) = Cardinality(StoredBindings)
  /\ DepQuiet =>
       /\ ListedEdges = { deptbl_bindings[s] : s \in StoredBindings }
       /\ dcounter = Cardinality(ListedEdges)

\* A call has returned as a duplicate for an edge that is in the list, and
\* nothing else is running.
C4_Witness ==
  \E p \in Procs :
    /\ dpc[p] = "ret" /\ dloc[p].op = "add" /\ dloc[p].res = "dup"
    /\ dloc[p].val \in Range(edges(deptbl, dloc[p].key))
    /\ DepQuiet /\ attached = Procs /\ dcounter = 2

\* C5: hh_get_dep never fails its check of next.num, and the list it returns
\* is what the list of u held when it read the slot that ended its probe: the
\* values in head-CAS order, a prefix of the final insertion order.
C5_GetReturnsSnapshot ==
  \A p \in Procs :
    (dpc[p] = "ret" /\ dloc[p].op = "get")
      => /\ dloc[p].res = "list"
         /\ dloc[p].result = dloc[p].snap
         /\ IsPrefix(dloc[p].result, order[dloc[p].key])

\* A read returned a list of two values while a third value was linked
\* behind its back.
C5_Witness ==
  \E p \in Procs :
    /\ dpc[p] = "ret" /\ dloc[p].op = "get" /\ dloc[p].res = "list"
    /\ Len(dloc[p].result) = 2
    /\ Len(order[dloc[p].key]) = 3

C7_PutOnPresentKeyLoses ==
  \A p \in Procs :
    (hpc[p] = "ret" /\ hloc[p].op = "add" /\ hloc[p].pre = 1)
      => /\ hloc[p].res = "lost"
         /\ hloc[p].alloc = 0
         /\ mem_status(hashtbl, hloc[p].hash) = 1
         /\ stored_value(hashtbl, heap, hloc[p].hash) = hloc[p].pre_value

\* The slots that hold `hash` with an address or the sentinel.
slots_of(hash) == { s \in HashSlots : hashtbl[s].hash = hash /\ hashtbl[s].addr # NULL }

\* C8: when two processes have called hh_add with the same key, absent (and
\* with a slot to take) at both calls, and both calls are over without
\* HeapFull: one has written and allocated, the other has the pair
\* (Min_long, Min_long) and allocated nothing, hcounter was incremented once
\* and the key is in one slot.
C8_OneWinnerPerKey ==
  \A p, q \in Procs :
    ( /\ p # q
      /\ hpc[p] = "ret" /\ hloc[p].op = "add" /\ hloc[p].pre \in {-1, -2}
      /\ hpc[q] = "ret" /\ hloc[q].op = "add" /\ hloc[q].pre \in {-1, -2}
      /\ hloc[p].hash = hloc[q].hash
      /\ "HeapFull" \notin {hloc[p].res, hloc[q].res} )
      => /\ {hloc[p].res, hloc[q].res} = {"written", "lost"}
         /\ hloc[p].res = "lost" => hloc[p].alloc = 0
         /\ hloc[p].incs + hloc[q].incs = 1
         /\ Cardinality(slots_of(hloc[p].hash)) = 1

\* C9: an hh_mem on a key whose hh_add has returned to the same process
\* returns 1, never -1 or -2.
C9_HasAfterPutIsPresent ==
  \A p \in Procs :
    (hpc[p] = "ret" /\ hloc[p].op = "mem" /\ hloc[p].res = "status"
       /\ hloc[p].hash \in hloc[p].puts)
      => hloc[p].status = 1

\* C10: an hh_mem that returns while another process is inside the first
\* hh_add of the key (the key was not in the table when that call started)
\* returns -1 or 1, never -2.
C10_HasDuringFirstPut ==
  \A p, q \in Procs :
    ( /\ p # q
      /\ hpc[p] = "ret" /\ hloc[p].op = "mem" /\ hloc[p].res = "status"
      /\ hpc[q] \notin {"idle", "ret"} /\ hloc[q].op = "add"
      /\ hloc[q].hash = hloc[p].hash /\ hloc[q].pre = -1 )
      => hloc[p].status \in {-1, 1}


(***************************************************************************)
(* Properties of the collector's decision.                                 *)
(***************************************************************************)
\* used >= factor * (used - wasted) over the reals, factor 2 or 1.2 (6/5);
\* the sizes are multiples of the cache line and are compared in lines.
over_factor(aggressive, used, wasted) ==
  LET u == used \div CACHE_LINE_SIZE
      r == (used - wasted) \div CACHE_LINE_SIZE
  IN  IF aggressive THEN 5 * u >= 6 * r ELSE u >= 2 * r

\* C14: hh_collect(aggressive) compacts only when used >= factor * (used -
\* wasted), factor 2 normally and 1.2 when aggressive: whenever should_collect,
\* the test hh_collect compacts on, answers true, the inequality holds.
C14_CompactsOnlyOverFactor ==
  sc.pc = "done" /\ sc.answer => over_factor(sc.aggressive, sc.used, sc.wasted)


(***************************************************************************)
(* Properties of the value store under the calls of the master.            *)
(***************************************************************************)
\* a is the address of a chunk hh_alloc has handed out.
heap_entry_addr(a) ==
  /\ a >= heap_init /\ a < heap_top /\ a < heap_max
  /\ (a - heap_init) % CACHE_LINE_SIZE = 0
  /\ heap[LineOf(a)] # NoEntry

\* C11: in every state, for every key of hh_add, hash 0 included, each slot's
\* addr is NULL, the sentinel or the address of a heap entry, and a slot whose
\* hash is 0 has addr NULL.
C11_SlotAddrWellFormed ==
  \A s \in HashSlots :
    /\ \/ hashtbl[s].addr \in {NULL, HASHTBL_WRITE_IN_PROGRESS}
       \/ heap_entry_addr(hashtbl[s].addr)
    /\ hashtbl[s].hash = 0 => hashtbl[s].addr = NULL

\* The master's call `op` has just returned `res`.
MasterReturned(op, res) ==
  hpc[master] = "ret" /\ hloc[master].op = op /\ hloc[master].res = res

\* The slots that held an entry before the call.
LiveBefore == { s \in HashSlots : mres.tbl[s].addr # NULL }

\* ALIGNED(Heap_entry_total_size) of the entry slot s pointed to before the call.
SizeBefore(s) == ALIGNED(Heap_entry_total_size(mres.heap[LineOf(mres.tbl[s].addr)].header))

RECURSIVE SumSizes(_)
SumSizes(S) ==
  IF S = {} THEN 0
  ELSE LET s == CHOOSE x \in S : TRUE IN SizeBefore(s) + SumSizes(S \ {s})

\* C12: after hh_collect has compacted, every slot that had an entry points
\* into [heap_init, *heap) at an entry with the header and payload it had, the
\* entries are packed from heap_init on in their previous address order, *heap
\* - heap_init is the sum of their aligned sizes and *wasted_heap_size is 0.
C12_CompactionPacksLiveEntries ==
  MasterReturned("collect", "compacted") =>
    /\ \A s \in HashSlots \ LiveBefore : hashtbl[s].addr = NULL
    /\ \A s \in LiveBefore :
         /\ hashtbl[s].addr >= heap_init /\ hashtbl[s].addr < heap_top
         /\ heap[LineOf(hashtbl[s].addr)] = mres.heap[LineOf(mres.tbl[s].addr)]
         /\ hashtbl[s].addr =
              heap_init + SumSizes({ t \in LiveBefore : mres.tbl[t].addr < mres.tbl[s].addr })
    /\ heap_top - heap_init = SumSizes(LiveBefore)
    /\ wasted_heap_size = 0

C12_Witness ==
  /\ MasterReturned("collect", "compacted")
  /\ Cardinality(LiveBefore) = 2
  /\ \A s \in LiveBefore : hashtbl[s].addr < mres.tbl[s].addr
  /\ mres.wasted > 0

\* C13: hh_collect, compacting or not, leaves hh_mem of every key as it was,
\* hh_get_and_deserialize of every present key as it was, and every hash field
\* and *hcounter unchanged.
C13_CollectKeepsContent ==
  MasterReturned("collect", "compacted") \/ MasterReturned("collect", "skipped") =>
    /\ \A k \in Hashes :
         /\ mem_status(hashtbl, k) = mem_status(mres.tbl, k)
         /\ mem_status(mres.tbl, k) = 1 =>
              stored_value(hashtbl, heap, k) = stored_value(mres.tbl, mres.heap, k)
    /\ \A s \in HashSlots : hashtbl[s].hash = mres.tbl[s].hash
    /\ hcounter = mres.hcounter

C13_Witness ==
  /\ MasterReturned("collect", "compacted")
  /\ \E k \in Hashes, s \in HashSlots :
       /\ mem_status(mres.tbl, k) = 1 /\ s = find_slot(hashtbl, k)
       /\ hashtbl[s].addr # mres.tbl[s].addr
       /\ stored_value(hashtbl, heap, k).kind = KIND_STRING
  /\ \E k \in Hashes : mem_status(hashtbl, k) = -2


\* The keys nobody has written: no hh_add of them has returned, no hh_move
\* has moved a value to them, and no slot carries their hash (for key 0: no
\* slot with hash 0 carries an addr).
never_written(k) ==
  /\ k \notin hloc[master].puts
  /\ \A s \in HashSlots :
       hashtbl[s].hash = k => (k = 0 /\ hashtbl[s].addr = NULL)

\* C15: hh_remove(k) by the master with *allow_removes set, on a key that
\* hh_mem reports present, sets the addr of k's slot to NULL and nothing else
\* in the table, adds the aligned total size of the entry to
\* *wasted_heap_size, leaves *hcounter and *heap alone; afterwards hh_mem(k)
\* is -2 and hh_mem of every key never written is -1.
C15_RemoveLeavesTombstone ==
  /\ hpc[master] = "ret" /\ hloc[master].op = "remove"
  /\ allow_removes
  /\ mem_status(mres.tbl, hloc[master].hash) = 1
  => LET k == hloc[master].hash
         slot == find_slot(mres.tbl, k)
     IN  /\ hloc[master].res = "unit"
         /\ hashtbl = [mres.tbl EXCEPT ![slot].addr = NULL]
         /\ wasted_heap_size = mres.wasted + SizeBefore(slot)
         /\ hcounter = mres.hcounter /\ heap_top = mres.top /\ heap = mres.heap
         /\ mem_status(hashtbl, k) = -2
         /\ \A u \in Hashes : never_written(u) => mem_status(hashtbl, u) = -1

\* C16: hh_move(src, dst) by the master with src present and dst absent: then
\* hh_mem(dst) is 1 and hh_get_and_deserialize(dst) is what it was for src,
\* hh_mem(src) is -2, *hcounter is one more exactly when dst's slot had hash
\* 0, and *heap, *wasted_heap_size, the heap and the other slots are as
\* before.
C16_MoveCarriesValue ==
  /\ hpc[master] = "ret" /\ hloc[master].op = "move"
  /\ allow_removes
  /\ mem_status(mres.tbl, hloc[master].hash) = 1
  /\ mem_status(mres.tbl, hloc[master].hash2) \in {-1, -2}
  => LET src == hloc[master].hash
         dst == hloc[master].hash2
         slot1 == find_slot(mres.tbl, src)
         slot2 == find_slot(mres.tbl, dst)
     IN  /\ hloc[master].res = "unit"
         /\ mem_status(hashtbl, dst) = 1
         /\ stored_value(hashtbl, heap, dst) = stored_value(mres.tbl, mres.heap, src)
         /\ mem_status(hashtbl, src) = -2
         /\ hcounter = mres.hcounter + (IF mres.tbl[slot2].hash = 0 THEN 1 ELSE 0)
         /\ heap_top = mres.top /\ wasted_heap_size = mres.wasted /\ heap = mres.heap
         /\ \A s \in HashSlots \ {slot1, slot2} : hashtbl[s] = mres.tbl[s]

C17_GetNeedsReadsAllowed ==
  \A p \in Procs :
    dpc[p] = "ret" /\ dloc[p].op = "get" /\ dloc[p].res = "list" =>
      allow_dependency_table_reads

\* The slots of the adjacency store that are in use.
UsedDepSlots == { s \in DepSlots : deptbl[s] # EmptyEntry }

\* C18: whenever no hh_add_dep is in flight, *dcounter is the number of
\* non-empty slots of deptbl and the number of distinct edges in memory, also
\* after hh_swap_in_db has reset both tables.
C18_CountIsUsedSlots ==
  DepQuiet =>
    /\ dcounter = Cardinality(UsedDepSlots)
    /\ dcounter = Cardinality(ListedEdges)
    /\ \A p \in Procs :
         dpc[p] = "ret" /\ dloc[p].op = "count" =>
           dloc[p].result = << Cardinality(UsedDepSlots) >>

\* C19: with a single process, hh_add_dep raises dep_table_full only for an
\* edge that is not stored, wherever in the probe chain the binding of a
\* stored edge sits and also when *dcounter is dep_size.
C19_DuplicateNeverFull ==
  \A p \in Procs :
    attached = {p} /\ dpc[p] = "ret" /\ dloc[p].op = "add" /\ dloc[p].res = "DepTableFull" =>
      \A s \in DepSlots : deptbl_bindings[s] # Binding(dloc[p].key, dloc[p].val)

(***************************************************************************)
(* Properties of the failures, the flags and the global storage.           *)
(***************************************************************************)
\* C21: when hh_add has failed with heap_full, *heap is not beyond heap_max
\* and the slot of its key is not left with HASHTBL_WRITE_IN_PROGRESS (so that
\* later hh_mem and hh_add on the key return and hh_collect does not fail).
C21_HeapFullLeavesStoreUsable ==
  \A p \in Procs :
    (hpc[p] = "ret" /\ hloc[p].op = "add" /\ hloc[p].res = "HeapFull")
      => /\ heap_top <= heap_max
         /\ \A s \in HashSlots :
              hashtbl[s].hash = hloc[p].hash =>
                hashtbl[s].addr # HASHTBL_WRITE_IN_PROGRESS


\* C22: hh_add_dep, hh_get_dep, hh_add, hh_mem and hh_get_and_deserialize
\* poll at entry: with *workers_should_exit set and worker_can_exit of the
\* process set, the call ends with worker_should_exit and no table, counter
\* or heap byte has changed; otherwise the call goes on to its first read.
C22_PollAtEntry ==
  [][\A p \in Procs :
       LET cancel == workers_should_exit /\ worker_can_exit[p]
       IN  /\ (dpc[p] = "idle" /\ dpc'[p] # "idle") =>
                IF cancel
                  THEN /\ dpc'[p] = "ret" /\ dloc'[p].res = "WorkerShouldExit"
                       /\ UNCHANGED << deptbl, deptbl_bindings, dcounter >>
                  ELSE dpc'[p] \in {"ab_load", "gd_load"}
           /\ (hpc[p] = "idle" /\ hpc'[p] # "idle") =>
                IF cancel
                  THEN /\ hpc'[p] = "ret" /\ hloc'[p].res = "WorkerShouldExit"
                       /\ UNCHANGED << hashtbl, hcounter, heap, heap_top >>
                  ELSE hpc'[p] \in {"ha_read", "fs_read"}]_vars

C22_Witness ==
  /\ workers_should_exit
  /\ ~worker_can_exit[master] /\ dpc[master] = "ab_load"
  /\ \E p \in Procs :
       /\ hpc[p] = "ret" /\ hloc[p].op = "add" /\ hloc[p].res = "WorkerShouldExit"
       /\ \E s \in HashSlots : hashtbl[s].addr \notin {NULL, HASHTBL_WRITE_IN_PROGRESS}


\* C23: hh_shared_store, hh_shared_clear, hh_stop_workers, hh_resume_workers,
\* hh_move, hh_remove and hh_collect called by a process that is not the
\* master, and hh_move, hh_remove and hh_collect called while *allow_removes
\* is 0, fail an assertion, and no word of the region has changed.
C23_MasterOnlyCallsAssert ==
  [][\A p \in Procs :
       /\ (gpc[p] = "idle" /\ gpc'[p] # "idle"
           /\ gloc'[p].op \in {"store", "clear", "stop_workers", "resume_workers"}
           /\ p # master)
            => /\ gpc'[p] = "ret" /\ gloc'[p].res = "assert"
               /\ UNCHANGED << global_storage, workers_should_exit >>
       /\ (hpc[p] = "idle" /\ hpc'[p] # "idle"
           /\ hloc'[p].op \in {"move", "remove", "collect"}
           /\ (p # master \/ ~allow_removes))
            => /\ hloc'[p].res = "assert"
               /\ UNCHANGED << hashtbl, hcounter, heap, heap_top, wasted_heap_size >>]_vars

\* C24: *allow_removes, *allow_dependency_table_reads and
\* *workers_should_exit change only in a call of the master: the setter
\* called by another process fails and leaves the flag as it was.
C24_FlagsSetByMasterOnly ==
  [][\A p \in Procs \ {master} :
       /\ (hpc[p] = "idle" /\ hpc'[p] # "idle" /\ hloc'[p].op = "allow_removes")
            => hloc'[p].res = "assert" /\ UNCHANGED allow_removes
       /\ (dpc[p] = "idle" /\ dpc'[p] # "idle" /\ dloc'[p].op = "allow_reads")
            => dloc'[p].res = "assert" /\ UNCHANGED allow_dependency_table_reads
       /\ (gpc[p] = "idle" /\ gpc'[p] # "idle"
           /\ gloc'[p].op \in {"stop_workers", "resume_workers"})
            => gloc'[p].res = "assert" /\ UNCHANGED workers_should_exit]_vars


\* C25: hh_shared_store(b) by the master, for every b shorter than
\* global_size_b - sizeof(value), is accepted exactly when no blob is stored,
\* and fails an assertion otherwise; hh_shared_load of any process returns the
\* blob whose store has returned, until hh_shared_clear, and fails an
\* assertion when no blob is stored; hh_shared_clear by the master empties
\* the storage.
C25_GlobalSlotProtocol ==
  [][\A p \in Procs :
       /\ (gpc[p] = "idle" /\ gpc'[p] # "idle" /\ gloc'[p].op = "store"
           /\ p = master /\ Len(gloc'[p].arg) < global_size_b - WordBytes)
            => IF stored_blob = NoBlob
                 THEN gpc'[p] = "gs_copy"
                 ELSE gpc'[p] = "ret" /\ gloc'[p].res = "assert"
       /\ (gpc[p] = "idle" /\ gpc'[p] # "idle" /\ gloc'[p].op = "load"
           /\ stored_blob = NoBlob /\ gpc[master] # "gs_copy")
            => gpc'[p] = "ret" /\ gloc'[p].res = "assert"
       /\ (gpc'[p] = "ret" /\ gloc'[p].op = "load" /\ gloc'[p].pre # NoBlob)
            => gloc'[p].res = "value" /\ gloc'[p].result = gloc'[p].pre
       /\ (gpc[p] = "idle" /\ gpc'[p] # "idle" /\ gloc'[p].op = "clear" /\ p = master)
            => global_storage'.size = 0 /\ gloc'[p].res = "unit"]_vars


C27_SizeIsStoredSize ==
  \A p \in Procs :
    (hpc[p] = "ret" /\ hloc[p].op = "size" /\ mem_status(hashtbl, hloc[p].hash) = 1)
      => /\ hloc[p].res = "int"
         /\ hloc[p].status =
              Entry_size(heap[LineOf(hashtbl[find_slot(hashtbl, hloc[p].hash)].addr)].header)


C29_WaitsForThePublication ==
  /\ [][\A p \in Procs :
          (hpc[p] = "mem_wait" /\ hpc'[p] # "mem_wait") =>
             /\ hpc'[p] = "ret"
             /\ IF hashtbl[hloc[p].slot].addr = HASHTBL_WRITE_IN_PROGRESS
                  THEN hloc'[p].res = "failwith"
                  ELSE hloc'[p].res = "status" /\ hloc'[p].status = 1]_vars
  /\ \A p \in Procs :
       (hpc[p] = "mem_wait") ~>
          (hpc[p] = "ret" /\ hloc[p].op = "mem"
             /\ \/ hloc[p].res = "status" /\ hloc[p].status = 1
                \/ hloc[p].res = "failwith")
  /\ \A p \in Procs :
       (hpc[p] = "mem_wait" /\ hashtbl[hloc[p].slot].addr # HASHTBL_WRITE_IN_PROGRESS) ~>
          (hpc[p] = "ret" /\ hloc[p].res = "status" /\ hloc[p].status = 1)

\* An hh_mem waits on the sentinel of a writer that has not yet allocated.
C29_Witness ==
  \E p \in Procs, q \in Procs :
    /\ p # q
    /\ hpc[p] = "mem_wait"
    /\ hashtbl[hloc[p].slot].addr = HASHTBL_WRITE_IN_PROGRESS
    /\ hpc[q] = "st_alloc"
    /\ hloc[q].slot = hloc[p].slot


(***************************************************************************)
(* The cells of deptbl a reader can come to: the heads, and the list       *)
(* nodes on the chain of a head.                                           *)
(***************************************************************************)
IsHead(entry) == entry # EmptyEntry /\ entry.key.tag = TAG_KEY

RECURSIVE ChainOf(_, _, _)
ChainOf(tbl, entry, fuel) ==
  IF fuel = 0 \/ entry.next.tag # TAG_NEXT \/ entry.next.num \notin DepSlots
    THEN {}
    ELSE {entry.next.num} \cup ChainOf(tbl, tbl[entry.next.num], fuel - 1)

Published(tbl) ==
  UNION { ChainOf(tbl, tbl[s], dep_size) : s \in { h \in DepSlots : IsHead(tbl[h]) } }

\* C30: while edges are added, a slot of deptbl that is not empty stays so
\* and keeps its key field; a list node on the chain of a head never changes;
\* the next field of a list node is written only while no head leads to it;
\* the next field of a head changes only to point to a node no head led to,
\* whose own next field is the one the head had.
C30_SlotsAreWriteOnce ==
  [][\A s \in DepSlots :
       deptbl[s] # EmptyEntry =>
         /\ deptbl'[s] # EmptyEntry
         /\ deptbl'[s].key = deptbl[s].key
         /\ (s \in Published(deptbl)) => deptbl'[s] = deptbl[s]
         /\ (deptbl'[s].next # deptbl[s].next) =>
              IF IsHead(deptbl[s])
                THEN /\ deptbl'[s].next.tag = TAG_NEXT
                     /\ deptbl'[s].next.num \in DepSlots \ Published(deptbl)
                     /\ deptbl[deptbl'[s].next.num].key.tag = TAG_VAL
                     /\ deptbl[deptbl'[s].next.num].next = deptbl[s].next
                ELSE s \notin Published(deptbl)]_vars

\* A head leads to a node that was prepended, while the other process has
\* allocated a node no head leads to yet.
C30_Witness ==
  \E s \in DepSlots, t \in DepSlots, p \in Procs :
    /\ IsHead(deptbl[s])
    /\ deptbl[s].next.tag = TAG_NEXT
    /\ t \notin Published(deptbl)
    /\ deptbl[t] # EmptyEntry /\ ~ IsHead(deptbl[t])
    /\ dpc[p] = "pp_cas" /\ dloc[p].list_slot = t


(***************************************************************************)
(* Properties of the slots, the counters and the heap under concurrency.   *)
(***************************************************************************)
\* The processes that hold a list node they allocated and have not linked.
HoldsNode(p) == dpc[p] \in {"pp_set_next", "pp_cas"}

RECURSIVE LinkedCount(_)
LinkedCount(keys) ==
  IF keys = {} THEN 0
  ELSE LET u == CHOOSE k \in keys : TRUE
       IN  Len(order[u]) + LinkedCount(keys \ {u})

\* C31: no slot of deptbl is claimed twice.  Every claim still shows: the
\* slots whose raw word is not zero are as many as the heads and nodes that
\* were linked plus the nodes allocated and not yet linked; the node a
\* process holds is in a slot of its own, with a raw word that is not zero;
\* and no cell that ends a list holds the two values 0 and 0.
C31_NoSlotClaimedTwice ==
  /\ Cardinality(UsedDepSlots) =
       LinkedCount(Keys) + Cardinality({ p \in Procs : HoldsNode(p) })
  /\ \A p \in Procs :
       HoldsNode(p) =>
         /\ deptbl[dloc[p].list_slot] # EmptyEntry
         /\ deptbl[dloc[p].list_slot].key = [num |-> dloc[p].val, tag |-> TAG_VAL]
         /\ \A q \in Procs \ {p} :
              HoldsNode(q) => dloc[q].list_slot # dloc[p].list_slot
  /\ \A s \in UsedDepSlots : deptbl[s].key.tag \in {TAG_KEY, TAG_VAL}

\* Both processes hold a node they allocated, one of them for the value 0.
C31_Witness ==
  /\ \A p \in Procs : HoldsNode(p)
  /\ \E p \in Procs : dloc[p].val = 0 /\ dpc[p] = "pp_cas"


\* The entry a writer leaves for the value `data`.
EntryOf(data) ==
  [header |-> store_ocaml(data).header, data |-> store_ocaml(data).payload]

PublishedLines ==
  { LineOf(hashtbl[s].addr) :
      s \in { t \in HashSlots : hashtbl[t].addr \notin {NULL, HASHTBL_WRITE_IN_PROGRESS} } }

\* C32: the address of an entry comes into its slot after the header and the
\* whole payload are in the heap: at an address that is in a slot the heap
\* holds the complete entry of a value, a reader that follows the address
\* gets that value, and no step changes the entry at an address in a slot.
C32_PublishedEntriesAreComplete ==
  /\ [](\A l \in PublishedLines : \E d \in Data : heap[l] = EntryOf(d))
  /\ [](\A p \in Procs :
          (hpc[p] = "ret" /\ hloc[p].op = "get" /\ hloc[p].res = "value")
             => \E d \in Data : hloc[p].value = hh_deserialize(EntryOf(d)))
  /\ [][\A l \in PublishedLines : heap'[l] = heap[l]]_vars

\* A reader has the value of a published entry while a writer has written
\* the header of another entry and not yet its payload.
C32_Witness ==
  \E p \in Procs, q \in Procs :
    /\ hpc[p] = "st_memcpy"
    /\ hashtbl[hloc[p].slot].addr = HASHTBL_WRITE_IN_PROGRESS
    /\ hpc[q] = "ret" /\ hloc[q].op = "get" /\ hloc[q].res = "value"


\* The slots of deptbl_bindings a binding was inserted into.
UsedBindingSlots == { s \in DepSlots : deptbl_bindings[s] # ZeroWord }

\* C33: every hh_add_dep returns, when the processes go on running their
\* calls: the slots of deptbl in use are never more than the bindings
\* inserted, so that alloc_deptbl_node finds a free slot, a CAS on a head
\* fails only when the head has changed, and a call in flight comes to its
\* return.
C33_AddDepTerminates ==
  /\ [](Cardinality(UsedDepSlots) <= Cardinality(UsedBindingSlots))
  /\ [][\A p \in Procs :
          (dpc[p] = "pp_cas" /\ dpc'[p] = "pp_set_next")
             => deptbl[dloc[p].slot] # dloc[p].slotval]_vars
  /\ \A p \in Procs : (dpc[p] \notin {"idle", "ret"}) ~> (dpc[p] = "ret")

\* A process scans for a free slot from a hint that is taken, while the
\* other process is in a call too.
C33_Witness ==
  \E p \in Procs, q \in Procs :
    /\ p # q
    /\ dpc[p] = "pp_alloc" /\ deptbl[dloc[p].list_slot] # EmptyEntry
    /\ dpc[q] \notin {"idle", "ret"}


\* The slots of hashtbl whose hash field is not zero.
NonemptySlots == { s \in HashSlots : hashtbl[s].hash # 0 }

\* C34: whenever no hh_add and no hh_move is running, *hcounter is the number
\* of slots of hashtbl whose hash is not zero (the assertion of
\* hh_hash_used_slots); *hcounter is never above hashtbl_size and never
\* decreases; and the sanity assertions after the two fetch-and-adds, in
\* hh_add and in add_binding, never fail.
C34_HcounterCountsSlots ==
  /\ []((\A p \in Procs : hpc[p] \in {"idle", "ret"})
          => hcounter = Cardinality(NonemptySlots))
  /\ [](hcounter <= hashtbl_size)
  /\ [][hcounter' >= hcounter]_vars
  /\ [](\A p \in Procs : ~ (hpc[p] = "ha_inc" /\ hcounter >= hashtbl_size))
  /\ [](\A p \in Procs : ~ (dpc[p] = "ab_inc" /\ dcounter > dep_size))


\* C35: for every size and uncompressed size below 2^31 and both kinds, the
\* header hh_store_ocaml builds is a word of 64 bits with bit 0 set, from
\* which Entry_size, Entry_kind and Entry_uncompressed_size give back the
\* three fields; the word hh_collect writes in the place of a header, the
\* address of an addr field, has bit 0 clear.
C35_HeaderRoundTrip ==
  /\ hd.pc \in {"header", "fields"} =>
       /\ Len(hd.word) = 8
       /\ \A i \in 1 .. 8 : hd.word[i] \in Bytes
       /\ hd.word[1] % 2 = 1
  /\ hd.pc = "fields" => hd.fields = << hd.size, hd.kind, hd.uncompressed_size >>
  /\ hd.pc = "pointer" => hd.word[1] % 2 = 0

\* The header of the largest entry, a string with the largest uncompressed
\* size, has been taken apart.
C35_Witness ==
  /\ hd.pc = "fields"
  /\ hd.size = MaxEntrySize /\ hd.kind = KIND_STRING /\ hd.uncompressed_size = MaxEntrySize


\* Two chunks, each given by its start and its length, share no byte.
Disjoint(c1, n1, c2, n2) == c1 + n1 <= c2 \/ c2 + n2 <= c1

\* The chunk of the entry at the address a.
ChunkLength(a) == ALIGNED(Heap_entry_total_size(heap[LineOf(a)].header))

\* C36: while entries are added *heap only grows, and a chunk that hh_alloc
\* returns starts at heap_init plus a multiple of the cache line, ends at or
\* below heap_max, and shares no byte with the chunk another process holds
\* nor with an entry whose address is in a slot.
C36_ChunksAreDisjoint ==
  [][/\ heap_top' >= heap_top
     /\ \A p \in Procs :
          (hpc[p] = "st_alloc" /\ hpc'[p] = "wa_publish") =>
            LET c == hloc'[p].chunk
                n == hloc'[p].alloc
            IN  /\ c >= heap_init
                /\ (c - heap_init) % CACHE_LINE_SIZE = 0
                /\ c + n <= heap_max
                /\ n > 0
                /\ \A q \in Procs \ {p} :
                     hpc[q] = "wa_publish" => Disjoint(c, n, hloc[q].chunk, hloc[q].alloc)
                /\ \A s \in HashSlots :
                     hashtbl[s].addr \notin {NULL, HASHTBL_WRITE_IN_PROGRESS} =>
                       Disjoint(c, n, hashtbl[s].addr, ChunkLength(hashtbl[s].addr))]_vars

\* Both processes hold a chunk they have not published yet.
C36_Witness ==
  \A p \in Procs : hpc[p] = "wa_publish" /\ hloc[p].chunk >= heap_init


\* The slots a probe passes on its way from `start` to `slot`.
ProbedBefore(start, slot, size) ==
  { (start + i) % size : i \in 0 .. ((slot - start + size) % size) - 1 }

HeadSlots(tbl, u) == { s \in DepSlots : tbl[s] # EmptyEntry /\ IsHeadOf(tbl[s], u) }
HashSlotsOf(tbl, h) == { s \in HashSlots : tbl[s].hash = h }

\* C37: under concurrent writers a key has at most one head in deptbl and a
\* nonzero hash is in at most one slot of hashtbl; the slot is taken when
\* all the slots the probe passed before it were taken, it keeps the key
\* from then on, and a lookup of the key comes to that slot.
C37_OneSlotPerKey ==
  /\ [](\A u \in Keys : Cardinality(HeadSlots(deptbl, u)) <= 1)
  /\ [](\A h \in Hashes \ {0} : Cardinality(HashSlotsOf(hashtbl, h)) <= 1)
  /\ [](\A u \in Keys : \A s \in HeadSlots(deptbl, u) : head_slot(deptbl, u) = s)
  /\ [](\A h \in Hashes \ {0} : \A s \in HashSlotsOf(hashtbl, h) : find_slot(hashtbl, h) = s)
  /\ [][/\ \A u \in Keys : \A s \in DepSlots :
             /\ s \in HeadSlots(deptbl, u) => s \in HeadSlots(deptbl', u)
             /\ (s \in HeadSlots(deptbl', u) /\ s \notin HeadSlots(deptbl, u)) =>
                  /\ deptbl[s] = EmptyEntry
                  /\ \A t \in ProbedBefore(key_slot[u], s, dep_size) :
                       deptbl[t] # EmptyEntry
     /\ \A h \in Hashes \ {0} : \A s \in HashSlots :
             /\ s \in HashSlotsOf(hashtbl, h) => s \in HashSlotsOf(hashtbl', h)
             /\ (s \in HashSlotsOf(hashtbl', h) /\ s \notin HashSlotsOf(hashtbl, h)) =>
                  /\ hashtbl[s].hash = 0
                  /\ \A t \in ProbedBefore(hash_slot(h), s, hashtbl_size) :
                       hashtbl[t].hash # 0]_vars

\* A writer has lost the CAS on a hash to another key and will probe on,
\* while a key of deptbl has a head that a second edge was prepended to and
\* a key has its head beyond the slot its probe starts from.
C37_Witness ==
  /\ \E p \in Procs :
       /\ hpc[p] = "ha_reread"
       /\ hashtbl[hloc[p].slot].hash \notin {0, hloc[p].hash}
  /\ \E u \in Keys : \E s \in HeadSlots(deptbl, u) : deptbl[s].next.tag = TAG_NEXT
  /\ \E u \in Keys : \E s \in HeadSlots(deptbl, u) : s # key_slot[u]


(***************************************************************************)
(* Properties of the live entries under the calls of the master.           *)
(***************************************************************************)
\* The slots whose addr is the address of an entry.
LiveSlots(tbl) == { s \in HashSlots : tbl[s].addr \notin {NULL, HASHTBL_WRITE_IN_PROGRESS} }

\* C38: as long as the master has not died inside hh_collect, after any
\* sequence of hh_add, hh_move, hh_remove and hh_collect no two slots hold the
\* same heap address, the entries the slots point to start with a header and
\* lie in pairwise disjoint ranges below *heap, so that the swap of hh_collect
\* finds one slot for each header it took away.
C38_LiveEntriesAreDisjoint ==
  hpc[master] # "dead" =>
    /\ \A s \in LiveSlots(hashtbl) :
         /\ heap_entry_addr(hashtbl[s].addr)
         /\ heap[LineOf(hashtbl[s].addr)].header[1] % 2 = 1
         /\ hashtbl[s].addr + ChunkLength(hashtbl[s].addr) <= heap_top
    /\ \A s \in LiveSlots(hashtbl), t \in LiveSlots(hashtbl) :
         s # t =>
           /\ hashtbl[s].addr # hashtbl[t].addr
           /\ Disjoint(hashtbl[s].addr, ChunkLength(hashtbl[s].addr),
                       hashtbl[t].addr, ChunkLength(hashtbl[t].addr))

\* Two entries are live after removals and a compaction that has moved one
\* of them down.
C38_Witness ==
  /\ MasterReturned("collect", "compacted")
  /\ Cardinality(LiveSlots(hashtbl)) = 2
  /\ mres.wasted > 0
  /\ \E s \in HashSlots : hashtbl[s].addr < mres.tbl[s].addr


\* The sum of ALIGNED(Heap_entry_total_size) over the entries of the slots S.
RECURSIVE SumLive(_)
SumLive(S) ==
  IF S = {} THEN 0
  ELSE LET s == CHOOSE x \in S : TRUE
       IN  ChunkLength(hashtbl[s].addr) + SumLive(S \ {s})

\* No call of the master is under way, and no hh_add has raised Heap_full:
\* such a call leaves the sentinel in its slot and *heap beyond heap_max.
NoPutInFlightOrFailed ==
  /\ hpc[master] \in {"idle", "ret"}
  /\ heap_top <= heap_max
  /\ \A s \in HashSlots : hashtbl[s].addr # HASHTBL_WRITE_IN_PROGRESS

\* C39: whenever no hh_add is in flight and none has failed, after any
\* sequence of hh_add, hh_remove, hh_move and hh_collect the used heap size
\* less *wasted_heap_size is the sum of the aligned total sizes of the entries
\* the slots point to.
C39_ReachableSizeIsExact ==
  NoPutInFlightOrFailed =>
    used_heap_size - wasted_heap_size = SumLive(LiveSlots(hashtbl))

\* An entry has been removed and not yet collected while another is live,
\* and a move has just returned.
C39_Witness ==
  /\ NoPutInFlightOrFailed
  /\ MasterReturned("move", "unit")
  /\ wasted_heap_size > 0
  /\ LiveSlots(hashtbl) # {}
  /\ mres.tbl # hashtbl


\* The call of hh_add by p is over, on a key that was written before and
\* whose slot held the key's hash and no address when the call began (a
\* nonzero hash: hash 0 is the mark of every empty slot), Heap_full apart.
AddOnTombstone(p) ==
  /\ hpc[p] = "ret" /\ hloc[p].op = "add"
  /\ hloc[p].hash # 0
  /\ hloc[p].hash \in hloc[p].puts
  /\ hloc[p].pre = -2
  /\ hloc[p].res # "HeapFull"

\* C40: an hh_add on a key that was written and then removed takes the key's
\* slot again: it returns the sizes of a new entry, not (Min_long, Min_long),
\* leaves *hcounter as it was, hh_mem of the key is 1 and the key reads as the
\* new value; no step of hh_add changes *wasted_heap_size, which keeps the old
\* entry until hh_collect compacts.
C40_TombstoneIsReusable ==
  /\ [](\A p \in Procs :
          AddOnTombstone(p) =>
            /\ hloc[p].res = "written"
            /\ hloc[p].sizes = << store_ocaml(hloc[p].data).alloc_size,
                                  store_ocaml(hloc[p].data).orig_size >>
            /\ hloc[p].alloc = ChunkLength(hloc[p].chunk)
            /\ hloc[p].incs = 0
            /\ mem_status(hashtbl, hloc[p].hash) = 1
            /\ stored_value(hashtbl, heap, hloc[p].hash) = hloc[p].data)
  /\ [][/\ wasted_heap_size' # wasted_heap_size =>
             \/ hloc'[master].op = "remove" /\ wasted_heap_size' > wasted_heap_size
             \/ hloc'[master].op = "collect" /\ wasted_heap_size' = 0]_vars

====
